---- MODULE Spec2Model ----
(***************************************************************************)
(* Thread manager, scheduler and process layer of the RV64 teaching        *)
(* kernel (src/src/kern/thread.c), with the generic I/O reference counts.  *)
(*                                                                         *)
(* A thread structure is identified with the slot of thrtab that holds it. *)
(* Kernel code runs without preemption between two suspension points, so   *)
(* one action is the running thread's code from one suspension point       *)
(* (_thread_swtch, _thread_finish_fork) to the next.                       *)
(***************************************************************************)
EXTENDS Integers, Naturals, Sequences, FiniteSets, TLC

\* ---------------------------------------------------------------- bounds
NTHR == 4          \* thread.c:26 is 16; the table is modelled with fewer slots
NFD == 1           \* descriptors per process (16 in the kernel)
NOBJ == 1          \* I/O objects that can be open at once
PIPE_CAP == 2      \* bytes a pipe holds (512 in the kernel)
MaxBytes == 4      \* bytes the writer of a pipe submits in all
MaxLit == 3        \* largest size of an in-memory literal
MaxReq == 3        \* largest byte count asked of an I/O call
MaxCalls == 3      \* calls an I/O object answers before it reports end
MaxStream == 4     \* bytes of the raw input of a line-discipline wrapper
MaxLine == 4       \* characters typed before the line end of a line read
WordBits == 4      \* width of unsigned long and size_t (64 in the build)

\* ------------------------------------------------------------- constants
NULL == -1
MAIN_TID == 0
IDLE_TID == NTHR - 1
NPROC == NTHR
MAIN_MTAG == NULL              \* the kernel's own address space

Tids == 0 .. (NTHR - 1)

PAGE_SIZE == 4096
ANCHOR_SIZE == 16              \* struct thread_stack_anchor: thread, reserved

\* A kernel stack: the allocator its block came from, the thread's stack_base
\* as an offset from the lowest address of the block, and every release of it
\* (the allocator called and the address passed, as such an offset).
NoStack == [alloc |-> "none", stack_base |-> NULL, released |-> <<>>]

\* the stacks of main and idle are static storage, which is never released;
\* their addresses are not modelled
StaticStack == [alloc |-> "static", stack_base |-> NULL, released |-> <<>>]

\* a block of PAGE_SIZE bytes with the anchor in its last ANCHOR_SIZE bytes
NewStack(allocator) ==
    [alloc |-> allocator, stack_base |-> PAGE_SIZE - ANCHOR_SIZE,
     released |-> <<>>]

\* the page allocator is handed addr; the thread's stack_base is cleared
memory_free_page(stk, addr) ==
    [stk EXCEPT !.released = Append(@, [to |-> "page", addr |-> addr]),
                !.stack_base = NULL]
UserA0 == {0, NTHR + 1}        \* values the user's a0 may hold at a trap
Pids == 0 .. (NPROC - 1)
Fds == 0 .. (NFD - 1)
Objs == 1 .. NOBJ
EXT_COND == NTHR               \* a condition that is no thread's child_exit
NOT_FULL == NTHR + 1            \* the pipe's conditions
NOT_EMPTY == NTHR + 2
EINVAL == 1                    \* error codes, returned negated
ENOTSUP == 3
BLKSZ == 4096                  \* what a literal reports for GETBLKSZ
CR == "CR"                     \* the characters '\r' and '\n'
LF == "LF"
Chars == {CR, LF, "a"}         \* "a": any other character
Cmds == {"GETLEN", "SETPOS", "GETPOS", "GETBLKSZ", "GETREFCNT", "OTHER"}
CondIds == Tids \cup {EXT_COND, NOT_FULL, NOT_EMPTY}
child_exit(t) == t             \* the condition embedded in thread t

ThreadStates == {"UNINIT", "STOPPED", "WAITING", "RUNNING", "READY", "EXITED"}

VARIABLES
    thrtab,      \* thrtab[tid]: NULL or the thread in the slot
    state,       \* thread.state
    parent,      \* thread.parent
    proc,        \* thread.proc
    list_next,   \* thread.list_next
    wait_cond,   \* thread.wait_cond
    stack,       \* kernel stack of the thread: allocator, stack_base, releases
    ready_list,  \* [head, tail]
    cond,        \* cond[c]: wait_list [head, tail] of condition c
    cur,         \* CURTHR (tp)
    prev,        \* value _thread_swtch returned in the thread now running
    satp,        \* active address space (mtag)
    halted,      \* "" while the kernel runs, else the panic / halt message
    pc,          \* where each thread is in its code
    jtid,        \* local tid of thread_join in a waiting joiner
    fork_tid,    \* local child_tid of thread_fork_to_user (on both stacks)
    a0,          \* a0 slot of the trap frame on the thread's kernel stack
    wfi,         \* TRUE while the idle thread sits in wfi
    proctab,     \* proctab[pid]: TRUE when the process exists
    iotab,       \* iotab[pid][fd]: NULL or an I/O object
    refcnt,      \* refcnt[obj]
    ev,          \* the last call that returned: [op, thr, val]
    unreaped,    \* unreaped[tid]: times spawn/fork returned tid, less the
                 \* times join/join_any returned it
    pipe,        \* the pipe: [obj, buf, head, tail, fill]
    xfer,        \* the pipe's users and traffic: the writing and the reading
                 \* thread, the write and read call in progress, the number
                 \* of bytes written and the bytes read so far
    lit,         \* an in-memory literal: [size, pos, buf]
    term,        \* a line-discipline wrapper over the literal: [cr_in, cr_out]
    io,          \* the last call on an I/O object and what it returned
    raw,         \* the raw device under a line-discipline wrapper: [in, out,
                 \* taken, got, put], the input it still holds, the bytes
                 \* delivered to it, the input taken from it, the bytes
                 \* ioterm_read has returned and the bytes given to
                 \* ioterm_write, each over all calls
    cpu          \* the hart's interrupt enable (sie), an interrupt that woke
                 \* wfi and is still pending, and the locals of the function
                 \* each thread is in when functions are followed statement
                 \* by statement: saved_intr_state, the caller of
                 \* suspend_self, tid, next_thread, cond

vars == <<thrtab, state, parent, proc, list_next, wait_cond, stack, ready_list,
          cond, cur, prev, satp, halted, pc, jtid, fork_tid, a0, wfi,
          proctab, iotab, refcnt, ev, unreaped, pipe, xfer, lit, term, io, raw,
          cpu>>

pvars == <<pipe, xfer>>

ivars == <<lit, term, io, raw>>

\* everything but the I/O objects of ivars
kvars == <<thrtab, state, parent, proc, list_next, wait_cond, stack,
           ready_list, cond, cur, prev, satp, halted, pc, jtid, fork_tid, a0,
           wfi, proctab, iotab, refcnt, ev, unreaped, pipe, xfer, cpu>>

\* The kernel's scheduler data as one value, so that a C function is an
\* operator from kernel state to kernel state.
K == [thrtab |-> thrtab, state |-> state, parent |-> parent, proc |-> proc,
      list_next |-> list_next, wait_cond |-> wait_cond, stack |-> stack,
      ready_list |-> ready_list, cond |-> cond, cur |-> cur, prev |-> prev,
      satp |-> satp, halted |-> halted, a0 |-> a0]

\* (the result is bound by a quantifier so that it is computed once)
Commit(result) ==
    \E k \in {result} :
        /\ thrtab' = k.thrtab
        /\ state' = k.state
        /\ parent' = k.parent
        /\ proc' = k.proc
        /\ list_next' = k.list_next
        /\ wait_cond' = k.wait_cond
        /\ stack' = k.stack
        /\ ready_list' = k.ready_list
        /\ cond' = k.cond
        /\ cur' = k.cur
        /\ prev' = k.prev
        /\ satp' = k.satp
        /\ halted' = k.halted
        /\ a0' = k.a0

\* ---------------------------------------------------------- thread lists
EmptyList == [head |-> NULL, tail |-> NULL]

RECURSIVE Walk(_, _, _)
Walk(t, ln, fuel) ==
    IF t = NULL \/ fuel = 0 THEN <<>> ELSE <<t>> \o Walk(ln[t], ln, fuel - 1)

\* The threads reached from list.head over list_next, in order.
ListSeq(list, ln) == Walk(list.head, ln, NTHR + 1)

Range(s) == {s[i] : i \in 1 .. Len(s)}

tlclear(list) == EmptyList

tlempty(list) == list.head = NULL

tlinsert_unlinked(list, ln, thr) ==
    LET ln1 == [ln EXCEPT ![thr] = NULL] IN
    IF list.tail # NULL
    THEN [list |-> [head |-> list.head, tail |-> thr], ln |-> ln1]
    ELSE [list |-> [head |-> thr, tail |-> thr], ln |-> ln1]

tlinsert(list, ln, thr) ==
    LET ln1 == [ln EXCEPT ![thr] = NULL] IN
    IF list.tail # NULL
    THEN [list |-> [head |-> list.head, tail |-> thr],
          ln |-> [ln1 EXCEPT ![list.tail] = thr]]
    ELSE [list |-> [head |-> thr, tail |-> thr], ln |-> ln1]

tlremove(list, ln) ==
    LET thr == list.head IN
    IF thr = NULL
    THEN [thr |-> NULL, list |-> list, ln |-> ln]
    ELSE LET h == ln[thr] IN
         [thr |-> thr,
          list |-> [head |-> h, tail |-> IF h # NULL THEN list.tail ELSE NULL],
          ln |-> [ln EXCEPT ![thr] = NULL]]

tlappend_front(l0, l1, ln) ==
    IF l1.head # NULL
    THEN [l0 |-> [head |-> l1.head,
                  tail |-> IF l0.head # NULL THEN l0.tail ELSE l1.tail],
          l1 |-> EmptyList,
          ln |-> [ln EXCEPT ![l1.tail] = l0.head]]
    ELSE [l0 |-> l0, l1 |-> EmptyList, ln |-> ln]

tlappend(l0, l1, ln) ==
    IF l0.head # NULL
    THEN IF l1.head # NULL
         THEN [l0 |-> [head |-> l0.head, tail |-> l1.tail],
               l1 |-> EmptyList,
               ln |-> [ln EXCEPT ![l0.tail] = l1.head]]
         ELSE [l0 |-> l0, l1 |-> EmptyList, ln |-> ln]
    ELSE [l0 |-> [head |-> l1.head, tail |-> l1.tail],
          l1 |-> EmptyList, ln |-> ln]

\* ------------------------------------------------------ kernel functions
Panic(k, msg) == IF k.halted = "" THEN [k EXCEPT !.halted = msg] ELSE k

set_thread_state_keeps_running(k, t, s) ==
    IF k.state[t] = "RUNNING" /\ s = "READY" THEN k
    ELSE [k EXCEPT !.state[t] = s]

set_thread_state(k, t, s) == [k EXCEPT !.state[t] = s]

mtag(p) == p

memory_space_switch(k, m) == [k EXCEPT !.satp = m]

\* thrasm.s: tp becomes the resumed thread; the value returned in the
\* resumed thread is the thread that was displaced.
thread_swtch(k, next) == [k EXCEPT !.cur = next, !.prev = k.cur]

condition_broadcast_none(k, c) == k

condition_broadcast(k, c) ==
    IF k.halted # "" \/ tlempty(k.cond[c]) THEN k
    ELSE LET ws == Range(ListSeq(k.cond[c], k.list_next))
             ap == tlappend(k.ready_list, k.cond[c], k.list_next)
         IN IF \E t \in ws : k.state[t] # "WAITING" \/ k.wait_cond[t] # c
            THEN Panic(k, "assert in condition_broadcast")
            ELSE [k EXCEPT
                    !.state = [t \in Tids |->
                                 IF t \in ws THEN "READY" ELSE k.state[t]],
                    !.wait_cond = [t \in Tids |->
                                 IF t \in ws THEN NULL ELSE k.wait_cond[t]],
                    !.ready_list = ap.l0,
                    !.list_next = ap.ln,
                    !.cond[c] = tlclear(ap.l1)]

\* a suspend_self that leaves the address space as it is
suspend_self_same_space(k) ==
    IF k.halted # "" THEN k
    ELSE IF tlempty(k.ready_list)
    THEN Panic(k, "assert !tlempty(ready_list)")
    ELSE LET susp == k.cur
             rm == tlremove(k.ready_list, k.list_next)
             next == rm.thr
             k1 == set_thread_state(
                       [k EXCEPT !.ready_list = rm.list, !.list_next = rm.ln],
                       next, "RUNNING")
             ins == tlinsert(k1.ready_list, k1.list_next, susp)
             k2 == IF k1.state[susp] = "RUNNING"
                   THEN [set_thread_state(k1, susp, "READY") EXCEPT
                            !.ready_list = ins.list, !.list_next = ins.ln]
                   ELSE k1
             k3 == k2
         IN IF k.state[next] # "READY"
            THEN Panic(k, "assert next_thread->state == THREAD_READY")
            ELSE thread_swtch(k3, next)

\* suspend_self up to and including _thread_swtch.
suspend_self(k) ==
    IF k.halted # "" THEN k
    ELSE IF tlempty(k.ready_list)
    THEN Panic(k, "assert !tlempty(ready_list)")
    ELSE LET susp == k.cur
             rm == tlremove(k.ready_list, k.list_next)
             next == rm.thr
             k1 == set_thread_state(
                       [k EXCEPT !.ready_list = rm.list, !.list_next = rm.ln],
                       next, "RUNNING")
             ins == tlinsert(k1.ready_list, k1.list_next, susp)
             k2 == IF k1.state[susp] = "RUNNING"
                   THEN [set_thread_state(k1, susp, "READY") EXCEPT
                            !.ready_list = ins.list, !.list_next = ins.ln]
                   ELSE k1
             k3 == IF k2.proc[next] # NULL
                   THEN memory_space_switch(k2, mtag(k2.proc[next]))
                   ELSE k2
         IN IF k.state[next] # "READY"
            THEN Panic(k, "assert next_thread->state == THREAD_READY")
            ELSE thread_swtch(k3, next)

\* suspend_self after _thread_swtch has returned in the resumed thread;
\* prev_thread is a local that is dead when suspend_self returns.
suspend_self_tail(k) ==
    IF k.halted # "" THEN k
    ELSE IF k.prev # NULL /\ k.state[k.prev] = "EXITED"
    THEN [k EXCEPT !.stack[k.prev] = memory_free_page(@, @.stack_base - PAGE_SIZE),
                   !.prev = NULL]
    ELSE [k EXCEPT !.prev = NULL]

condition_wait_unrecorded(k, c) ==
    IF k.halted # "" THEN k
    ELSE LET k1 == [set_thread_state(k, k.cur, "WAITING") EXCEPT
                       !.list_next[k.cur] = NULL]
             ins == tlinsert(k1.cond[c], k1.list_next, k1.cur)
         IN suspend_self([k1 EXCEPT !.cond[c] = ins.list,
                                    !.list_next = ins.ln])

condition_wait(k, c) ==
    IF k.halted # "" THEN k
    ELSE IF k.state[k.cur] # "RUNNING"
    THEN Panic(k, "assert CURTHR->state == THREAD_RUNNING")
    ELSE LET k1 == [set_thread_state(k, k.cur, "WAITING") EXCEPT
                       !.wait_cond[k.cur] = c, !.list_next[k.cur] = NULL]
             ins == tlinsert(k1.cond[c], k1.list_next, k1.cur)
         IN suspend_self([k1 EXCEPT !.cond[c] = ins.list,
                                    !.list_next = ins.ln])

\* a recycle_thread that leaves the children with the recycled thread
recycle_thread_orphans(k, tid) ==
    IF k.halted # "" THEN k
    ELSE IF ~(0 < tid /\ tid < NTHR) \/ k.thrtab[tid] = NULL
    THEN Panic(k, "assert in recycle_thread")
    ELSE IF k.state[tid] # "EXITED"
    THEN Panic(k, "assert thr->state == THREAD_EXITED")
    ELSE [k EXCEPT
            !.parent = [c \in Tids |->
                          IF c = tid THEN NULL
                          ELSE k.parent[c]],
            !.thrtab[tid] = NULL,
            !.state[tid] = "UNINIT",
            !.proc[tid] = NULL,
            !.list_next[tid] = NULL,
            !.wait_cond[tid] = NULL,
            !.stack[tid] = NoStack,
            !.a0[tid] = 0]

recycle_thread(k, tid) ==
    IF k.halted # "" THEN k
    ELSE IF ~(0 < tid /\ tid < NTHR) \/ k.thrtab[tid] = NULL
    THEN Panic(k, "assert in recycle_thread")
    ELSE IF k.state[tid] # "EXITED"
    THEN Panic(k, "assert thr->state == THREAD_EXITED")
    ELSE [k EXCEPT
            !.parent = [c \in Tids |->
                          IF c = tid THEN NULL
                          ELSE IF c >= 1 /\ k.thrtab[c] # NULL
                                  /\ k.parent[c] = tid
                               THEN k.parent[tid]
                               ELSE k.parent[c]],
            !.thrtab[tid] = NULL,
            !.state[tid] = "UNINIT",
            !.proc[tid] = NULL,
            !.list_next[tid] = NULL,
            !.wait_cond[tid] = NULL,
            !.stack[tid] = NoStack,
            !.a0[tid] = 0]

\* a slot search that takes the last free slot instead of the first
FreeSlot_last(k, from) ==
    IF \E t \in from .. (NTHR - 1) : k.thrtab[t] = NULL
    THEN CHOOSE t \in from .. (NTHR - 1) :
            /\ k.thrtab[t] = NULL
            /\ \A u \in from .. (NTHR - 1) : k.thrtab[u] = NULL => u <= t
    ELSE NTHR

\* first free slot scanned from `from`; NTHR when there is none
FreeSlot(k, from) ==
    IF \E t \in from .. (NTHR - 1) : k.thrtab[t] = NULL
    THEN CHOOSE t \in from .. (NTHR - 1) :
            /\ k.thrtab[t] = NULL
            /\ \A u \in from .. (NTHR - 1) : k.thrtab[u] = NULL => t <= u
    ELSE NTHR


\* thread_spawn: [k, ret]; ret = NULL when the call did not return
thread_spawn(k) ==
    LET tid == FreeSlot(k, 1) IN
    IF tid = NTHR
    THEN [k |-> Panic(k, "Too many threads"), ret |-> NULL]
    ELSE LET k1 == [k EXCEPT !.thrtab[tid] = tid,
                             !.parent[tid] = k.cur,
                             !.proc[tid] = k.proc[k.cur],
                             !.stack[tid] = NewStack("page"),
                             !.state[tid] = "READY"]
             ins == tlinsert(k1.ready_list, k1.list_next, tid)
         IN [k |-> [k1 EXCEPT !.ready_list = ins.list, !.list_next = ins.ln],
             ret |-> tid]

\* thread_fork_to_user up to and including _thread_finish_fork, which makes
\* the child the current thread; [k, ret] with ret the child's tid
thread_fork_to_user(k, child_proc) ==
    LET child_tid == FreeSlot(k, 0) IN
    IF child_tid = NTHR
    THEN [k |-> Panic(k, "Too many threads"), ret |-> NULL]
    ELSE LET k1 == [k EXCEPT !.thrtab[child_tid] = child_tid,
                             !.parent[child_tid] = k.cur,
                             !.proc[child_tid] = child_proc,
                             !.stack[child_tid] = NewStack("heap"),
                             !.state[child_tid] = "RUNNING"]
             k2 == set_thread_state(k1, k1.cur, "READY")
             ins == tlinsert(k2.ready_list, k2.list_next, k2.cur)
             k3 == memory_space_switch(
                       [k2 EXCEPT !.ready_list = ins.list,
                                  !.list_next = ins.ln],
                       mtag(child_proc))
             \* memcpy of the used part of the parent's kernel stack, which
             \* holds the trap frame
             k4 == [k3 EXCEPT !.a0[child_tid] = k3.a0[k3.cur]]
         IN [k |-> [k4 EXCEPT !.cur = child_tid], ret |-> child_tid]

\* thread_fork_to_user after _thread_finish_fork, in the parent and in the
\* child: only the thread that is the child clears a0 of the child's frame
thread_fork_return_never(k, child_tid) == k

thread_fork_return(k, child_tid) ==
    IF k.cur = child_tid THEN [k EXCEPT !.a0[child_tid] = 0] ELSE k

\* thread_exit up to the switch; the main thread halts the machine
thread_exit_no_broadcast(k) ==
    IF k.cur = MAIN_TID THEN Panic(k, "halt_success")
    ELSE suspend_self(set_thread_state(k, k.cur, "EXITED"))

thread_exit(k) ==
    IF k.cur = MAIN_TID THEN Panic(k, "halt_success")
    ELSE LET k1 == set_thread_state(k, k.cur, "EXITED") IN
         IF k1.parent[k1.cur] = NULL
         THEN Panic(k1, "assert CURTHR->parent != NULL")
         ELSE suspend_self(
                  condition_broadcast(k1, child_exit(k1.parent[k1.cur])))

\* the loop of thread_join: [k, blocked, ret]
thread_join_loop_no_check(k, tid) ==
    [k |-> [k EXCEPT !.thrtab[tid] = NULL, !.state[tid] = "UNINIT"],
     blocked |-> FALSE, ret |-> tid]

thread_join_loop(k, tid) ==
    IF k.state[tid] # "EXITED"
    THEN [k |-> condition_wait(k, child_exit(k.cur)),
          blocked |-> TRUE, ret |-> NULL]
    ELSE [k |-> recycle_thread(k, tid), blocked |-> FALSE, ret |-> tid]

\* thread_join's first statement, `child = thrtab[tid]`, runs before the
\* range check: for a tid outside the table it is a load from outside the
\* array, which yields a value the function does not use or faults
thread_join_fetch(k, tid) ==
    IF tid \in Tids THEN {k}
    ELSE {k, Panic(k, "load fault at thrtab[tid]")}

thread_join(k, tid) ==
    IF tid <= 0 \/ NTHR <= tid
    THEN [k |-> k, blocked |-> FALSE, ret |-> 0 - 1]
    ELSE IF k.thrtab[tid] = NULL \/ k.parent[tid] # k.cur
    THEN [k |-> k, blocked |-> FALSE, ret |-> 0 - 1]
    ELSE thread_join_loop(k, tid)

IsChild(k, t) == t >= 1 /\ k.thrtab[t] # NULL /\ k.parent[t] = k.cur

ExitedChildren(k) == {t \in Tids : IsChild(k, t) /\ k.state[t] = "EXITED"}

Lowest(S) == CHOOSE t \in S : \A u \in S : t <= u

\* thread_join_any up to its condition_wait: [k, blocked, ret]
thread_join_any(k) ==
    IF ExitedChildren(k) # {}
    THEN thread_join(k, Lowest(ExitedChildren(k)))
    ELSE IF {t \in Tids : IsChild(k, t)} = {}
    THEN [k |-> Panic(k, "thread_wait called by childless thread"),
          blocked |-> FALSE, ret |-> NULL]
    ELSE [k |-> condition_wait(k, child_exit(k.cur)),
          blocked |-> TRUE, ret |-> NULL]

\* thread_join_any after its condition_wait has returned: [k, ret]
thread_join_any_all(k) ==
    LET RECURSIVE Reap(_, _)
        Reap(kk, S) == IF S = {} THEN kk
                       ELSE Reap(recycle_thread(kk, Lowest(S)),
                                 S \ {Lowest(S)})
    IN IF ExitedChildren(k) # {}
       THEN [k |-> Reap(k, ExitedChildren(k)),
             ret |-> Lowest(ExitedChildren(k))]
       ELSE [k |-> Panic(k, "spurious child_exit signal"), ret |-> NULL]

thread_join_any_woken(k) ==
    IF ExitedChildren(k) # {}
    THEN [k |-> recycle_thread(k, Lowest(ExitedChildren(k))),
          ret |-> Lowest(ExitedChildren(k))]
    ELSE [k |-> Panic(k, "spurious child_exit signal"), ret |-> NULL]

thread_set_process(k, tid, p) == [k EXCEPT !.proc[tid] = p]


\* ------------------------------------------ processes and I/O objects
\* The descriptor tables and reference counts as one value.
P == [proctab |-> proctab, iotab |-> iotab, refcnt |-> refcnt]

CommitP(result) ==
    \E p \in {result} :
        /\ proctab' = p.proctab
        /\ iotab' = p.iotab
        /\ refcnt' = p.refcnt

FreePid(p) ==
    IF \E i \in Pids : ~p.proctab[i]
    THEN CHOOSE i \in Pids : ~p.proctab[i] /\ \A j \in Pids : ~p.proctab[j] => i <= j
    ELSE NULL

\* number of descriptor slots of live processes that hold object o
Slots(p, o) ==
    Cardinality({x \in Pids \X Fds : p.proctab[x[1]] /\ p.iotab[x[1]][x[2]] = o})

\* io.c iolit_init: a newly initialised object has one reference
iolit_init_zero(p, o) == [p EXCEPT !.refcnt[o] = 0]

iolit_init(p, o) == [p EXCEPT !.refcnt[o] = 1]

ioref(p, o) == [p EXCEPT !.refcnt[o] = @ + 1]

ioclose(p, o) == [p EXCEPT !.refcnt[o] = @ - 1]

\* process_exec: a new process for the calling kernel thread; [p, pid]
process_exec(p) ==
    LET pid == FreePid(p) IN
    [p |-> [p EXCEPT !.proctab[pid] = TRUE,
                     !.iotab[pid] = [fd \in Fds |-> NULL]],
     pid |-> pid]

\* process_fork steps 1 and 2: the child process with the parent's
\* descriptors, each object referenced once more; [p, pid]
process_fork(p, ppid) ==
    LET pid == FreePid(p)
        RECURSIVE RefAll(_, _)
        RefAll(q, n) ==
            IF n < 0 THEN q
            ELSE RefAll(IF q.iotab[ppid][n] # NULL
                        THEN ioref(q, q.iotab[ppid][n]) ELSE q, n - 1)
    IN [p |-> [RefAll(p, NFD - 1) EXCEPT !.proctab[pid] = TRUE,
                                        !.iotab[pid] = p.iotab[ppid]],
        pid |-> pid]

\* process_exit: every descriptor of the process is closed
process_exit(p, pid) ==
    LET RECURSIVE CloseAll(_, _)
        CloseAll(q, n) ==
            IF n < 0 THEN q
            ELSE CloseAll(IF q.iotab[pid][n] # NULL
                          THEN [ioclose(q, q.iotab[pid][n]) EXCEPT
                                   !.iotab[pid][n] = NULL]
                          ELSE q, n - 1)
    IN [CloseAll(p, NFD - 1) EXCEPT !.proctab[pid] = FALSE]

\* the syscall return path of the forking thread: the value process_fork
\* returned is stored in the a0 slot of the caller's trap frame
sysfork_return(k, child_tid) ==
    IF k.cur = child_tid THEN k ELSE [k EXCEPT !.a0[k.cur] = child_tid]

\* ------------------------------------------------------------- the pipe
\* Every pipe operation holds the pipe's lock from its entry to its return
\* or to its condition_wait and nothing else suspends a thread in between,
\* so the lock is free whenever a thread is dispatched; it is not a variable.
Min(a, b) == IF a <= b THEN a ELSE b

Slot(i) == i % PIPE_CAP

\* pipe_write: blocks on not_full while the pipe is full, else copies up to
\* n of the bytes first, first + 1, ... at the tail; [k, pp, blocked, cnt]
pipe_write(k, pp, first, n) ==
    IF pp.fill = PIPE_CAP
    THEN [k |-> condition_wait(k, NOT_FULL), pp |-> pp,
          blocked |-> TRUE, cnt |-> 0]
    ELSE LET cnt == Min(n, PIPE_CAP - pp.fill) IN
         [k |-> condition_broadcast(k, NOT_EMPTY),
          pp |-> [pp EXCEPT
                    !.buf = [i \in 0 .. (PIPE_CAP - 1) |->
                               IF Slot(i + PIPE_CAP - pp.tail) < cnt
                               THEN first + Slot(i + PIPE_CAP - pp.tail)
                               ELSE pp.buf[i]],
                    !.tail = Slot(pp.tail + cnt),
                    !.fill = pp.fill + cnt],
          blocked |-> FALSE, cnt |-> cnt]

\* pipe_read: blocks on not_empty while the pipe is empty, else takes up to
\* n bytes from the head; [k, pp, blocked, data]
pipe_read(k, pp, n) ==
    IF pp.fill = 0
    THEN [k |-> condition_wait(k, NOT_EMPTY), pp |-> pp,
          blocked |-> TRUE, data |-> <<>>]
    ELSE LET cnt == Min(n, pp.fill) IN
         [k |-> condition_broadcast(k, NOT_FULL),
          pp |-> [pp EXCEPT !.head = Slot(pp.head + cnt),
                            !.fill = pp.fill - cnt],
          blocked |-> FALSE,
          data |-> [j \in 1 .. cnt |-> pp.buf[Slot(pp.head + j - 1)]]]

\* iowrite over the pipe, from acc bytes done: the loop calls pipe_write
\* with the n - acc bytes still missing until acc = n or the call blocks;
\* [k, pp, blocked, acc]
\* an iowrite that hands the object the start of the buffer in every call
RECURSIVE iowrite_pipe_no_offset(_, _, _, _, _)
iowrite_pipe_no_offset(k, pp, first, n, acc) ==
    IF acc >= n \/ k.halted # ""
    THEN [k |-> k, pp |-> pp, blocked |-> FALSE, acc |-> acc]
    ELSE LET r == pipe_write(k, pp, first, n - acc) IN
         IF r.blocked
         THEN [k |-> r.k, pp |-> r.pp, blocked |-> TRUE, acc |-> acc]
         ELSE iowrite_pipe_no_offset(r.k, r.pp, first, n, acc + r.cnt)

RECURSIVE iowrite_pipe(_, _, _, _, _)
iowrite_pipe(k, pp, first, n, acc) ==
    IF acc >= n \/ k.halted # ""
    THEN [k |-> k, pp |-> pp, blocked |-> FALSE, acc |-> acc]
    ELSE LET r == pipe_write(k, pp, first + acc, n - acc) IN
         IF r.blocked
         THEN [k |-> r.k, pp |-> r.pp, blocked |-> TRUE, acc |-> acc]
         ELSE iowrite_pipe(r.k, r.pp, first, n, acc + r.cnt)

\* ------------------------------------------------------- I/O objects
\* A byte is a number. A literal of size sz starts with the bytes 1 .. sz;
\* the buffer a caller writes from holds the bytes 11, 12, ... (iolit_init
\* sets the fields buf, size and pos = 0)
iolit(sz) == [size |-> sz, pos |-> 0, buf |-> [i \in 1 .. sz |-> i]]

UserBuf(n) == [i \in 1 .. n |-> 10 + i]

\* unsigned long and size_t arithmetic
WORD == 2 ^ WordBits

\* io_lit_read(io, buf, bufsz): [lit, ret, data, span], span the count given
\* to memcpy and data the bytes it copies out of the literal's buffer
io_lit_read(l, bufsz) ==
    IF l.pos >= l.size
    THEN [lit |-> l, ret |-> -EINVAL, data |-> <<>>, span |-> 0]
    ELSE LET bytes_to_read == IF (l.pos + bufsz) % WORD > l.size
                              THEN l.size - l.pos ELSE bufsz
             last == IF l.pos + bytes_to_read > l.size THEN l.size
                     ELSE l.pos + bytes_to_read
         IN [lit |-> [l EXCEPT !.pos = (@ + bytes_to_read) % WORD],
             ret |-> 0,
             data |-> SubSeq(l.buf, l.pos + 1, last),
             span |-> bytes_to_read]

\* io_lit_write(io, buf, n), src the n bytes at buf: [lit, ret, data, span],
\* span the count given to memcpy and data the bytes taken from src
io_lit_write(l, src, n) ==
    IF l.pos >= l.size
    THEN [lit |-> l, ret |-> -EINVAL, data |-> <<>>, span |-> 0]
    ELSE LET bytes_to_write == IF (l.pos + n) % WORD > l.size
                               THEN l.size - l.pos ELSE n
         IN [lit |-> [l EXCEPT
                        !.buf = [i \in 1 .. l.size |->
                                   IF l.pos < i /\ i <= l.pos + bytes_to_write
                                   THEN src[i - l.pos] ELSE l.buf[i]],
                        !.pos = (@ + bytes_to_write) % WORD],
             ret |-> 0,
             data |-> SubSeq(src, 1, bytes_to_write),
             span |-> bytes_to_write]

\* io_lit_ioctl(io, cmd, arg): [lit, ret, out], out the value stored at arg
\* (NULL when nothing is stored); for SETPOS arg is the value read at arg
io_lit_ioctl(l, cmd, arg) ==
    CASE cmd = "GETLEN" -> [lit |-> l, ret |-> 0, out |-> l.size]
      [] cmd = "SETPOS" -> [lit |-> [l EXCEPT !.pos = arg], ret |-> 0,
                            out |-> NULL]
      [] cmd = "GETPOS" -> [lit |-> l, ret |-> 0, out |-> l.pos]
      [] cmd = "GETBLKSZ" -> [lit |-> l, ret |-> 0, out |-> BLKSZ]
      [] OTHER -> [lit |-> l, ret |-> -1, out |-> NULL]

\* ioterm_ioctl(io, cmd, arg) of a wrapper tm whose raw object is the
\* literal l: [term, lit, ret, out]
ioterm_ioctl(tm, l, cmd, arg) ==
    IF cmd # "SETPOS"
    THEN LET r == io_lit_ioctl(l, cmd, arg)
         IN [term |-> tm, lit |-> r.lit, ret |-> r.ret, out |-> r.out]
    ELSE [term |-> tm, lit |-> l, ret |-> -ENOTSUP, out |-> NULL]

\* An I/O object behind io_intf is the literal, [kind |-> "lit", lit], or an
\* object known by its answers: [kind |-> "dev", script], where script[i]
\* is what its i-th read or write has to give, an error code (negative) or
\* the number of bytes it can transfer then, of which it transfers no more
\* than it was asked for; after the script it reports 0. An object without
\* the operation (ops->read or ops->write NULL) is [kind |-> "none"].
LitObj(l) == [kind |-> "lit", lit |-> l]

DevObj(script) == [kind |-> "dev", script |-> script]

NoOp == [kind |-> "none"]

\* io->ops->read(io, buf + acc, len): [o, ret, data]
ops_read(o, len) ==
    IF o.kind = "lit"
    THEN LET r == io_lit_read(o.lit, len)
         IN [o |-> LitObj(r.lit), ret |-> r.ret, data |-> r.data]
    ELSE IF o.script = <<>>
    THEN [o |-> o, ret |-> 0, data |-> <<>>]
    ELSE IF Head(o.script) < 0
    THEN [o |-> DevObj(Tail(o.script)), ret |-> Head(o.script), data |-> <<>>]
    ELSE [o |-> DevObj(Tail(o.script)), ret |-> Min(Head(o.script), len),
          data |-> [i \in 1 .. Min(Head(o.script), len) |-> 20 + i]]

\* io->ops->write(io, buf + acc, len), src the len bytes at buf + acc
ops_write(o, src, len) ==
    IF o.kind = "lit"
    THEN LET r == io_lit_write(o.lit, src, len)
         IN [o |-> LitObj(r.lit), ret |-> r.ret, data |-> r.data]
    ELSE IF o.script = <<>>
    THEN [o |-> o, ret |-> 0, data |-> <<>>]
    ELSE IF Head(o.script) < 0
    THEN [o |-> DevObj(Tail(o.script)), ret |-> Head(o.script), data |-> <<>>]
    ELSE [o |-> DevObj(Tail(o.script)), ret |-> Min(Head(o.script), len),
          data |-> SubSeq(src, 1, Min(Head(o.script), len))]

\* one call of the loop as the object saw it: the offset into the caller's
\* buffer, the length asked for and the count returned
Call(off, len, cnt) == [off |-> off, len |-> len, cnt |-> cnt]

\* a read that is not repeated
ioread_full_once(o, bufsz, acc, buf, calls) ==
    LET r == ops_read(o, bufsz)
    IN [o |-> r.o, ret |-> r.ret, buf |-> buf \o r.data,
        calls |-> Append(calls, Call(acc, bufsz, r.ret))]

\* the loop of ioread_full from the state acc; buf is what the calls have
\* put into the caller's buffer so far: [o, ret, buf, calls]
RECURSIVE ioread_full_loop(_, _, _, _, _)
ioread_full_loop(o, bufsz, acc, buf, calls) ==
    IF ~(acc < bufsz)
    THEN [o |-> o, ret |-> acc, buf |-> buf, calls |-> calls]
    ELSE LET r == ops_read(o, bufsz - acc)
             cs == Append(calls, Call(acc, bufsz - acc, r.ret))
         IN IF r.ret < 0
            THEN [o |-> r.o, ret |-> r.ret, buf |-> buf \o r.data, calls |-> cs]
            ELSE IF r.ret = 0
            THEN [o |-> r.o, ret |-> acc, buf |-> buf \o r.data, calls |-> cs]
            ELSE ioread_full_loop(r.o, bufsz, acc + r.ret, buf \o r.data, cs)

ioread_full(o, bufsz) ==
    IF o.kind = "none"
    THEN [o |-> o, ret |-> -ENOTSUP, buf |-> <<>>, calls |-> <<>>]
    ELSE ioread_full_loop(o, bufsz, 0, <<>>, <<>>)

\* the loop of iowrite from the state acc; src is the caller's buffer and
\* buf what the object has taken of it so far
RECURSIVE iowrite_loop(_, _, _, _, _, _)
iowrite_loop(o, src, n, acc, buf, calls) ==
    IF ~(acc < n)
    THEN [o |-> o, ret |-> acc, buf |-> buf, calls |-> calls]
    ELSE LET r == ops_write(o, SubSeq(src, acc + 1, n), n - acc)
             cs == Append(calls, Call(acc, n - acc, r.ret))
         IN IF r.ret < 0
            THEN [o |-> r.o, ret |-> r.ret, buf |-> buf \o r.data, calls |-> cs]
            ELSE IF r.ret = 0
            THEN [o |-> r.o, ret |-> acc, buf |-> buf \o r.data, calls |-> cs]
            ELSE iowrite_loop(r.o, src, n, acc + r.ret, buf \o r.data, cs)

iowrite(o, src, n) ==
    IF o.kind = "none"
    THEN [o |-> o, ret |-> -ENOTSUP, buf |-> <<>>, calls |-> <<>>]
    ELSE iowrite_loop(o, src, n, 0, <<>>, <<>>)

\* the answers an object may have for the calls of one loop
Answers == {-EINVAL} \cup (0 .. MaxReq)

Scripts == UNION {[1 .. len -> Answers] : len \in 0 .. MaxCalls}

\* the record of a call: op, the object's kind, the request (n, cmd, arg),
\* the value returned, the bytes moved, the calls made on the object and,
\* of an object known by its answers, the answers
CallRec(op, kind, n, cmd, arg, ret, buf, calls, out) ==
    [op |-> op, kind |-> kind, n |-> n, cmd |-> cmd, arg |-> arg,
     ret |-> ret, buf |-> buf, calls |-> calls, out |-> out, script |-> <<>>]

NoCall == CallRec("none", "none", 0, "", NULL, 0, <<>>, <<>>, NULL)

\* the record of a loop over an object known by its answers
LoopRec(op, o, n, r) ==
    [CallRec(op, o.kind, n, "", NULL, r.ret, r.buf, r.calls, NULL)
       EXCEPT !.script = IF o.kind = "dev" THEN o.script ELSE <<>>]

\* ---------------------------------------------- line-discipline wrapper
\* a raw device that holds the input s
RawDev(s) == [in |-> s, out |-> <<>>, taken |-> <<>>, got |-> <<>>,
              put |-> <<>>]

\* a scan that keeps the \n after a \r
RECURSIVE ioterm_read_scan_keep(_, _, _)
ioterm_read_scan_keep(cr_in, bytes, data) ==
    IF bytes = <<>> THEN [cr_in |-> cr_in, data |-> data]
    ELSE IF Head(bytes) = CR
    THEN ioterm_read_scan_keep(1, Tail(bytes), Append(data, LF))
    ELSE ioterm_read_scan_keep(0, Tail(bytes), Append(data, Head(bytes)))

\* the scan of ioterm_read over the cnt bytes a raw read has put into the
\* buffer: [cr_in, data], data the bytes of buf .. wp
RECURSIVE ioterm_read_scan(_, _, _)
ioterm_read_scan(cr_in, bytes, data) ==
    IF bytes = <<>> THEN [cr_in |-> cr_in, data |-> data]
    ELSE LET ch == Head(bytes)
         IN IF cr_in = 1
            THEN IF ch = CR THEN ioterm_read_scan(1, Tail(bytes), Append(data, LF))
                 ELSE IF ch = LF THEN ioterm_read_scan(0, Tail(bytes), data)
                 ELSE ioterm_read_scan(0, Tail(bytes), Append(data, ch))
            ELSE IF ch = CR THEN ioterm_read_scan(1, Tail(bytes), Append(data, LF))
                 ELSE ioterm_read_scan(0, Tail(bytes), Append(data, ch))

\* ioterm_read(io, buf, len) on a wrapper tm over the raw input in: the set
\* of its outcomes [term, in, ret, data, calls, returns]. A raw read gives
\* an error or between 1 and len of the bytes the device holds; on a device
\* that holds none the read does not come back, and neither does
\* ioterm_read (returns = FALSE).
RECURSIVE ioterm_read(_, _, _, _)
ioterm_read(tm, in, len, calls) ==
    {[term |-> tm, in |-> in, ret |-> -EINVAL, data |-> <<>>,
      calls |-> Append(calls, Call(0, len, -EINVAL)), returns |-> TRUE]}
    \cup
    IF in = <<>> \/ len = 0
    THEN {[term |-> tm, in |-> in, ret |-> 0, data |-> <<>>,
           calls |-> calls, returns |-> FALSE]}
    ELSE UNION {
           LET sc == ioterm_read_scan(tm.cr_in, SubSeq(in, 1, cnt), <<>>)
               tm1 == [tm EXCEPT !.cr_in = sc.cr_in]
               in1 == SubSeq(in, cnt + 1, Len(in))
               cs == Append(calls, Call(0, len, cnt))
           IN IF sc.data = <<>>
              THEN ioterm_read(tm1, in1, len, cs)
              ELSE {[term |-> tm1, in |-> in1, ret |-> Len(sc.data),
                     data |-> sc.data, calls |-> cs, returns |-> TRUE]}
           : cnt \in 1 .. Min(len, Len(in))}

\* ioterm_write(io, buf, len) on a wrapper whose raw device takes every byte
\* it is offered (each iowrite on it returns the count asked, each ioputc
\* succeeds). rp and wp are offsets into buf, out is what the raw device has
\* been given and sent the places of buf it was given them from:
\* [cr_out, out, ret, sent]
Places(wp, rp) == [i \in 1 .. (rp - wp) |-> wp + i]

RECURSIVE ioterm_write_loop(_, _, _, _, _, _, _)
ioterm_write_loop(cr_out, buf, rp, wp, acc, out, sent) ==
    IF ~(rp < Len(buf))
    THEN IF rp # wp
         THEN [cr_out |-> cr_out, out |-> out \o SubSeq(buf, wp + 1, rp),
               ret |-> acc + (rp - wp), sent |-> sent \o Places(wp, rp)]
         ELSE [cr_out |-> cr_out, out |-> out, ret |-> acc, sent |-> sent]
    ELSE LET ch == buf[rp + 1]
             rp1 == rp + 1
         IN IF ch = CR
            THEN IF rp1 < Len(buf) /\ buf[rp1 + 1] = LF
                 THEN ioterm_write_loop(0, buf, rp1 + 1, wp, acc, out, sent)
                 ELSE ioterm_write_loop(1, buf, rp1, rp1, acc + (rp1 - wp),
                                        out \o SubSeq(buf, wp + 1, rp1) \o <<LF>>,
                                        sent \o Places(wp, rp1))
            ELSE IF ch = LF
            THEN IF cr_out = 1
                 THEN ioterm_write_loop(0, buf, rp1, wp + 1, acc, out, sent)
                 ELSE ioterm_write_loop(0, buf, rp1, rp1 - 1,
                                        acc + (rp1 - 1 - wp),
                                        out \o SubSeq(buf, wp + 1, rp1 - 1)
                                            \o <<CR>>,
                                        sent \o Places(wp, rp1 - 1))
            ELSE ioterm_write_loop(0, buf, rp1, wp, acc, out, sent)

\* a write that starts without the cr_out bit of the write before it
ioterm_write_forgetful(tm, buf) ==
    LET r == ioterm_write_loop(0, buf, 0, 0, 0, <<>>, <<>>)
    IN [term |-> [tm EXCEPT !.cr_out = r.cr_out], out |-> r.out, ret |-> r.ret,
        sent |-> r.sent]

ioterm_write(tm, buf) ==
    LET r == ioterm_write_loop(tm.cr_out, buf, 0, 0, 0, <<>>, <<>>)
    IN [term |-> [tm EXCEPT !.cr_out = r.cr_out], out |-> r.out, ret |-> r.ret,
        sent |-> r.sent]

\* the wrapper as the object of an iowrite: its flags and, call by call, the
\* places of the call's buffer that went to the raw device
TermObj(tm, sent) == [kind |-> "term", term |-> tm, sent |-> sent]

\* io->ops->write of the wrapper: ioterm_write on the len bytes src
term_ops_write(o, src, len) ==
    LET r == ioterm_write(o.term, src)
    IN [o |-> TermObj(r.term, Append(o.sent, r.sent)), ret |-> r.ret,
        data |-> r.out]

\* iowrite(io, buf, n) on the wrapper: the loop of iowrite with ioterm_write
\* as io->ops->write
RECURSIVE iowrite_term_loop(_, _, _, _, _, _)
iowrite_term_loop(o, src, n, acc, buf, calls) ==
    IF ~(acc < n)
    THEN [o |-> o, ret |-> acc, buf |-> buf, calls |-> calls]
    ELSE LET r == term_ops_write(o, SubSeq(src, acc + 1, n), n - acc)
             cs == Append(calls, Call(acc, n - acc, r.ret))
         IN IF r.ret < 0
            THEN [o |-> r.o, ret |-> r.ret, buf |-> buf \o r.data, calls |-> cs]
            ELSE IF r.ret = 0
            THEN [o |-> r.o, ret |-> acc, buf |-> buf \o r.data, calls |-> cs]
            ELSE iowrite_term_loop(r.o, src, n, acc + r.ret, buf \o r.data, cs)

\* the characters ioterm_getsn tells apart: '\b', '\177', '\133' (which is
\* '['), and those it writes: '\a', ' ', '\0'; JUNK is what a byte of
\* memory holds before it is written
BS == "BS"
DEL == "DEL"
LBRACKET == "["
BEL == "BEL"
SP == " "
NUL == "NUL"
JUNK == "?"

\* c = iogetc(&iot->io_intf): an ioterm_read of one byte on a raw device
\* that has no errors, [term, in, c, returns]; on a device that holds no
\* more input it does not come back
iogetc(tm, in) ==
    LET rs == {r \in ioterm_read(tm, in, 1, <<>>) : r.returns /\ r.ret = 1}
    IN IF rs = {}
       THEN [term |-> tm, in |-> <<>>, c |-> NUL, returns |-> FALSE]
       ELSE LET r == CHOOSE r \in rs : TRUE
            IN [term |-> r.term, in |-> r.in, c |-> r.data[1], returns |-> TRUE]

\* the memory around a buffer of n bytes, by offset from buf: the buffer is
\* 0 .. n - 1, with one byte below it and one above it
Memory(n) == [i \in (-1) .. n |-> JUNK]

\* the loop of ioterm_getsn(iot, buf, n) from the state (p, n), p the offset
\* of the write position from buf; mem is the memory around buf, out what
\* has been echoed to the raw device, wrote the offsets written so far and
\* low the lowest write position so far:
\* [term, in, ret, mem, out, wrote, low]
RECURSIVE ioterm_getsn_loop(_, _, _, _, _, _, _, _)
ioterm_getsn_loop(tm, in, n, p, mem, out, wrote, low) ==
    LET g == iogetc(tm, in)
        c == g.c
    IN IF ~g.returns
       THEN [term |-> tm, in |-> in, ret |-> "hung", mem |-> mem, out |-> out,
             wrote |-> wrote, low |-> low]
       ELSE IF c = LBRACKET
       THEN ioterm_getsn_loop([g.term EXCEPT !.cr_in = 0], g.in, n, p, mem,
                              out, wrote, low)
       ELSE IF c \in {CR, LF}
       THEN [term |-> g.term, in |-> g.in, ret |-> "buf",
             mem |-> [mem EXCEPT ![p] = NUL], out |-> out \o <<CR, LF>>,
             wrote |-> wrote \cup {p}, low |-> low]
       ELSE IF c \in {BS, DEL}
       THEN IF p # 0
            THEN ioterm_getsn_loop(g.term, g.in, n + 1, p - 1, mem,
                                   out \o <<BS, SP, BS>>, wrote,
                                   Min(low, p - 1))
            ELSE ioterm_getsn_loop(g.term, g.in, n, p, mem, out \o <<BEL>>,
                                   wrote, low)
       ELSE IF n > 1
            THEN ioterm_getsn_loop(g.term, g.in, n - 1, p + 1,
                                   [mem EXCEPT ![p] = c], out \o <<c>>,
                                   wrote \cup {p}, low)
            ELSE ioterm_getsn_loop(g.term, g.in, n, p, mem, out \o <<BEL>>,
                                   wrote, low)

ioterm_getsn(tm, in, n) ==
    ioterm_getsn_loop(tm, in, n, 0, Memory(n), <<>>, {}, 0)

\* ------------------------------------------------------------------ Init
\* threads run with interrupts enabled
InitCpu ==
    [sie |-> TRUE, pending |-> FALSE,
     saved |-> [t \in Tids |-> TRUE],
     ret |-> [t \in Tids |-> "run"],
     tid |-> [t \in Tids |-> NULL],
     next |-> [t \in Tids |-> NULL],
     cond |-> [t \in Tids |-> NULL]]

InitKernel ==
    /\ cpu = InitCpu
    /\ thrtab = [t \in Tids |-> IF t \in {MAIN_TID, IDLE_TID} THEN t ELSE NULL]
    /\ state = [t \in Tids |-> IF t = MAIN_TID THEN "RUNNING"
                               ELSE IF t = IDLE_TID THEN "READY" ELSE "UNINIT"]
    /\ parent = [t \in Tids |-> IF t = IDLE_TID THEN MAIN_TID ELSE NULL]
    /\ proc = [t \in Tids |-> NULL]
    /\ list_next = [t \in Tids |-> NULL]
    /\ wait_cond = [t \in Tids |-> NULL]
    /\ stack = [t \in Tids |-> IF t \in {MAIN_TID, IDLE_TID} THEN StaticStack
                               ELSE NoStack]
    /\ ready_list = [head |-> IDLE_TID, tail |-> IDLE_TID]
    /\ cond = [c \in CondIds |-> EmptyList]
    /\ cur = MAIN_TID
    /\ prev = NULL
    /\ satp = MAIN_MTAG
    /\ halted = ""
    /\ pc = [t \in Tids |-> IF t = MAIN_TID THEN "run"
                            ELSE IF t = IDLE_TID THEN "start" ELSE "none"]
    /\ jtid = [t \in Tids |-> NULL]
    /\ fork_tid = [t \in Tids |-> NULL]
    /\ a0 = [t \in Tids |-> 0]
    /\ wfi = FALSE
    /\ proctab = [i \in Pids |-> FALSE]
    /\ iotab = [i \in Pids |-> [fd \in Fds |-> NULL]]
    /\ refcnt = [o \in Objs |-> 0]
    /\ ev = [op |-> "none", thr |-> NULL, val |-> NULL, adopted |-> {}]
    /\ unreaped = [t \in Tids |-> 0]
    /\ pipe = [obj |-> NULL, buf |-> [i \in 0 .. (PIPE_CAP - 1) |-> 0],
               head |-> 0, tail |-> 0, fill |-> 0]
    /\ xfer = [writer |-> NULL, reader |-> NULL, wn |-> 0, wacc |-> 0,
               rn |-> 0, wcnt |-> 0, rd |-> <<>>]

Init ==
    /\ InitKernel
    /\ lit = iolit(MaxLit)
    /\ term = [cr_in |-> 0, cr_out |-> 0]
    /\ io = NoCall
    /\ raw = RawDev(<<>>)

\* --------------------------------------------------------------- actions
Alive == halted = "" /\ ~wfi

\* thread t is running at the top level of its code (kernel thread body or
\* user program between two system calls)
CanRun(t) == Alive /\ cur = t /\ pc[t] = "run" /\ t # IDLE_TID

Event(op, t, v) == [op |-> op, thr |-> t, val |-> v, adopted |-> {}]

NoEvent == Event("none", NULL, NULL)

\* cleared locals of a slot that recycle_thread has released
Released(k, f, dflt) == [t \in Tids |-> IF k.thrtab[t] = NULL THEN dflt ELSE f[t]]

Spawn(t) ==
    /\ CanRun(t)
    /\ proc[t] = NULL
    /\ \E r \in {thread_spawn(K)} :
       /\ Commit(r.k)
       /\ pc' = IF r.ret # NULL THEN [pc EXCEPT ![r.ret] = "start"] ELSE pc
       /\ unreaped' = IF r.ret # NULL THEN [unreaped EXCEPT ![r.ret] = @ + 1]
                       ELSE unreaped
       /\ ev' = Event("spawn", t, r.ret)
    /\ UNCHANGED <<jtid, fork_tid, wfi, proctab, iotab, refcnt>>
    /\ UNCHANGED <<pvars, ivars, cpu>>

\* the first dispatch of a spawned thread enters its start function
Start(t) ==
    /\ halted = "" /\ cur = t /\ pc[t] = "start"
    /\ pc' = [pc EXCEPT ![t] = "run"]
    /\ prev' = NULL
    /\ ev' = NoEvent
    /\ UNCHANGED <<thrtab, state, parent, proc, list_next, wait_cond, stack,
                   ready_list, cond, cur, satp, halted, jtid, fork_tid,
                   a0, wfi, proctab, iotab, refcnt, unreaped>>
    /\ UNCHANGED <<pvars, ivars, cpu>>

Yield(t) ==
    /\ CanRun(t)
    /\ Commit(suspend_self(K))
    /\ pc' = [pc EXCEPT ![t] = "yield"]
    /\ ev' = NoEvent
    /\ UNCHANGED <<jtid, fork_tid, wfi, proctab, iotab, refcnt, unreaped>>
    /\ UNCHANGED <<pvars, ivars, cpu>>

\* an idle loop that yields without looking at the ready list
IdleYield_unchecked ==
    /\ Alive /\ cur = IDLE_TID /\ pc[IDLE_TID] = "run"
    /\ Commit(suspend_self(K))
    /\ pc' = IF tlempty(ready_list) THEN pc
             ELSE [pc EXCEPT ![IDLE_TID] = "yield"]
    /\ ev' = NoEvent
    /\ UNCHANGED <<jtid, fork_tid, wfi, proctab, iotab, refcnt, unreaped>>
    /\ UNCHANGED <<pvars, ivars, cpu>>

\* idle_thread_func: yield while the ready list is not empty
IdleYield ==
    /\ Alive /\ cur = IDLE_TID /\ pc[IDLE_TID] = "run"
    /\ ~tlempty(ready_list)
    /\ Commit(suspend_self(K))
    /\ pc' = [pc EXCEPT ![IDLE_TID] = "yield"]
    /\ ev' = NoEvent
    /\ UNCHANGED <<jtid, fork_tid, wfi, proctab, iotab, refcnt, unreaped>>
    /\ UNCHANGED <<pvars, ivars, cpu>>

\* idle_thread_func: wfi when the ready list is empty
IdleWfi ==
    /\ Alive /\ cur = IDLE_TID /\ pc[IDLE_TID] = "run"
    /\ tlempty(ready_list)
    /\ wfi' = TRUE
    /\ ev' = NoEvent
    /\ UNCHANGED <<thrtab, state, parent, proc, list_next, wait_cond, stack,
                   ready_list, cond, cur, prev, satp, halted, pc, jtid,
                   fork_tid, a0, proctab, iotab, refcnt, unreaped>>
    /\ UNCHANGED <<pvars, ivars, cpu>>

\* condition_broadcast of the external condition, by the running thread or
\* by an interrupt handler; an interrupt ends wfi
Broadcast ==
    /\ halted = ""
    /\ Commit(condition_broadcast(K, EXT_COND))
    /\ wfi' = FALSE
    /\ ev' = NoEvent
    /\ UNCHANGED <<pc, jtid, fork_tid, proctab, iotab, refcnt, unreaped>>
    /\ UNCHANGED <<pvars, ivars, cpu>>

CondWait(t) ==
    /\ CanRun(t)
    /\ Commit(condition_wait(K, EXT_COND))
    /\ pc' = [pc EXCEPT ![t] = "cwait"]
    /\ ev' = NoEvent
    /\ UNCHANGED <<jtid, fork_tid, wfi, proctab, iotab, refcnt, unreaped>>
    /\ UNCHANGED <<pvars, ivars, cpu>>

\* thread_exit, for a thread of a process after process_exit
Exit(t) ==
    /\ CanRun(t)
    /\ Commit(thread_exit(K))
    /\ CommitP(IF proc[t] # NULL THEN process_exit(P, proc[t]) ELSE P)
    /\ pc' = [pc EXCEPT ![t] = "exit"]
    /\ ev' = NoEvent
    /\ UNCHANGED <<jtid, fork_tid, wfi, unreaped>>
    /\ UNCHANGED <<pvars, ivars, cpu>>

JoinDone(t, r, op) ==
    /\ Commit(r.k)
    /\ pc' = Released(r.k, [pc EXCEPT ![t] = "run"], "none")
    /\ jtid' = Released(r.k, [jtid EXCEPT ![t] = NULL], NULL)
    /\ fork_tid' = Released(r.k, fork_tid, NULL)
    /\ unreaped' = IF r.ret # NULL /\ r.ret >= 1
                   THEN [unreaped EXCEPT ![r.ret] = @ - 1] ELSE unreaped
    /\ ev' = [Event(op, t, r.ret) EXCEPT
                !.adopted = IF r.ret # NULL /\ r.ret >= 1
                            THEN {c \in Tids : /\ thrtab[c] # NULL
                                               /\ parent[c] = r.ret}
                            ELSE {}]

JoinBlocked(t, r, tid, where) ==
    /\ Commit(r.k)
    /\ pc' = [pc EXCEPT ![t] = where]
    /\ jtid' = [jtid EXCEPT ![t] = tid]
    /\ ev' = NoEvent
    /\ UNCHANGED <<fork_tid, unreaped>>

Join(t, tid) ==
    /\ CanRun(t)
    /\ \E k0 \in thread_join_fetch(K, tid) :
       \E r \in {IF k0.halted # ""
                 THEN [k |-> k0, blocked |-> FALSE, ret |-> NULL]
                 ELSE thread_join(k0, tid)} :
       IF r.blocked THEN JoinBlocked(t, r, tid, "join")
       ELSE JoinDone(t, r, "join")
    /\ UNCHANGED <<wfi, proctab, iotab, refcnt>>
    /\ UNCHANGED <<pvars, ivars, cpu>>

JoinAny(t) ==
    /\ CanRun(t)
    /\ \E r \in {thread_join_any(K)} :
       IF r.blocked THEN JoinBlocked(t, r, NULL, "joinany")
       ELSE JoinDone(t, r, "join_any")
    /\ UNCHANGED <<wfi, proctab, iotab, refcnt>>
    /\ UNCHANGED <<pvars, ivars, cpu>>

\* a thread that was switched to inside suspend_self finishes suspend_self
\* and goes on in the function that called it
Resume(t) ==
    /\ halted = "" /\ cur = t
    /\ pc[t] \in {"yield", "cwait", "join", "joinany", "exit"}
    /\ \E k1 \in {suspend_self_tail(K)} :
       CASE pc[t] \in {"yield", "cwait"} ->
              /\ Commit(k1)
              /\ pc' = [pc EXCEPT ![t] = "run"]
              /\ ev' = NoEvent
              /\ UNCHANGED <<jtid, fork_tid, unreaped>>
         [] pc[t] = "join" ->
              \E r \in {thread_join_loop(k1, jtid[t])} :
              IF r.blocked THEN JoinBlocked(t, r, jtid[t], "join")
              ELSE JoinDone(t, r, "join")
         [] pc[t] = "joinany" ->
              \E r \in {thread_join_any_woken(k1)} :
              JoinDone(t, r, "join_any")
         [] pc[t] = "exit" ->
              /\ Commit(Panic(k1, "thread_exit() failed"))
              /\ ev' = Event("exit", t, NULL)
              /\ UNCHANGED <<pc, jtid, fork_tid, unreaped>>
    /\ UNCHANGED <<wfi, proctab, iotab, refcnt>>
    /\ UNCHANGED <<pvars, ivars, cpu>>

\* process_exec by the main thread (the boot sequence): it becomes the thread
\* of a new process
Exec(t) ==
    /\ CanRun(t)
    /\ t = MAIN_TID
    /\ proc[t] = NULL
    /\ FreePid(P) # NULL
    /\ \E r \in {process_exec(P)} :
       /\ CommitP(r.p)
       /\ Commit(memory_space_switch(thread_set_process(K, t, r.pid),
                                     mtag(r.pid)))
       /\ ev' = NoEvent
    /\ UNCHANGED <<pc, jtid, fork_tid, wfi, unreaped>>
    /\ UNCHANGED <<pvars, ivars, cpu>>

\* the fork system call up to the switch to the child; trap entry has saved
\* the user's registers, a0 among them, in the caller's trap frame
Fork(t, ua0) ==
    /\ CanRun(t)
    /\ proc[t] # NULL
    /\ FreePid(P) # NULL
    /\ \E pf \in {process_fork(P, proc[t])} :
       \E r \in {thread_fork_to_user([K EXCEPT !.a0[t] = ua0], pf.pid)} :
          /\ CommitP(pf.p)
          /\ Commit(r.k)
          /\ pc' = IF r.ret # NULL
                   THEN [pc EXCEPT ![t] = "fork_ret", ![r.ret] = "fork_ret"]
                   ELSE pc
          /\ fork_tid' = IF r.ret # NULL
                         THEN [fork_tid EXCEPT ![t] = r.ret, ![r.ret] = r.ret]
                         ELSE fork_tid
          /\ unreaped' = IF r.ret # NULL
                         THEN [unreaped EXCEPT ![r.ret] = @ + 1]
                         ELSE unreaped
          /\ ev' = NoEvent
    /\ UNCHANGED <<jtid, wfi>>
    /\ UNCHANGED <<pvars, ivars, cpu>>

\* the rest of thread_fork_to_user and the return to user mode, in the
\* child and (once it is dispatched again) in the parent
ForkReturn(t) ==
    /\ halted = "" /\ cur = t /\ pc[t] = "fork_ret"
    /\ \E k1 \in {sysfork_return(thread_fork_return(K, fork_tid[t]),
                                  fork_tid[t])} :
          /\ Commit([k1 EXCEPT !.prev = NULL])
          /\ ev' = Event("fork", t, k1.a0[t])
    /\ pc' = [pc EXCEPT ![t] = "run"]
    /\ fork_tid' = [fork_tid EXCEPT ![t] = NULL]
    /\ UNCHANGED <<jtid, wfi, proctab, iotab, refcnt, unreaped>>
    /\ UNCHANGED <<pvars, ivars, cpu>>

\* a system call that opens an object at descriptor fd
Open(t, fd, o) ==
    /\ CanRun(t)
    /\ proc[t] # NULL
    /\ iotab[proc[t]][fd] = NULL
    /\ refcnt[o] = 0
    /\ CommitP([iolit_init(P, o) EXCEPT !.iotab[proc[t]][fd] = o])
    /\ ev' = NoEvent
    /\ UNCHANGED <<thrtab, state, parent, proc, list_next, wait_cond, stack,
                   ready_list, cond, cur, prev, satp, halted, pc, jtid,
                   fork_tid, a0, wfi, unreaped>>
    /\ UNCHANGED <<pvars, ivars, cpu>>

\* the close system call
Close(t, fd) ==
    /\ CanRun(t)
    /\ proc[t] # NULL
    /\ iotab[proc[t]][fd] # NULL
    /\ CommitP([ioclose(P, iotab[proc[t]][fd]) EXCEPT !.iotab[proc[t]][fd] = NULL])
    /\ ev' = NoEvent
    /\ UNCHANGED <<thrtab, state, parent, proc, list_next, wait_cond, stack,
                   ready_list, cond, cur, prev, satp, halted, pc, jtid,
                   fork_tid, a0, wfi, unreaped>>
    /\ UNCHANGED <<pvars, ivars, cpu>>

\* the scheduler under kernel threads and forking processes
Next ==
    \/ \E t \in Tids : Spawn(t)
    \/ \E t \in Tids : Start(t)
    \/ \E t \in Tids : Yield(t)
    \/ IdleYield
    \/ IdleWfi
    \/ Broadcast
    \/ \E t \in Tids : CondWait(t)
    \/ \E t \in Tids : Exit(t)
    \/ \E t \in Tids, tid \in 0 .. NTHR : Join(t, tid)
    \/ \E t \in Tids : JoinAny(t)
    \/ \E t \in Tids : Resume(t)
    \/ \E t \in Tids : Exec(t)
    \/ \E t \in Tids, ua0 \in UserA0 : Fork(t, ua0)
    \/ \E t \in Tids : ForkReturn(t)

Spec == Init /\ [][Next]_vars

\* processes that fork, exit and wait for each other
NextFork ==
    \/ \E t \in Tids : Start(t)
    \/ \E t \in Tids : Yield(t)
    \/ IdleYield
    \/ \E t \in Tids : Exit(t)
    \/ \E t \in Tids, tid \in 0 .. NTHR : Join(t, tid)
    \/ \E t \in Tids : Resume(t)
    \/ \E t \in Tids : Exec(t)
    \/ \E t \in Tids, ua0 \in UserA0 : Fork(t, ua0)
    \/ \E t \in Tids : ForkReturn(t)

\* Scheduling that the hardware and the timer guarantee: the running thread
\* goes on executing (Start, Resume, ForkReturn), and the timer interrupt
\* makes every running thread yield at a trap return.
\* Only the current thread can take one of these steps, so fairness of their
\* disjunction is fairness of each.
Progress ==
    \/ \E t \in Tids : Start(t) \/ Resume(t) \/ ForkReturn(t) \/ Yield(t)
    \/ IdleYield

Fairness == WF_vars(Progress)

FairSpec == Init /\ [][NextFork]_vars /\ Fairness

\* kernel threads that spawn, exit and wait for each other
NextJoin ==
    \/ \E t \in Tids : Spawn(t)
    \/ \E t \in Tids : Start(t)
    \/ \E t \in Tids : Yield(t)
    \/ IdleYield
    \/ IdleWfi
    \/ \E t \in Tids : Exit(t)
    \/ \E t \in Tids, tid \in 0 .. NTHR : Join(t, tid)
    \/ \E t \in Tids : JoinAny(t)
    \/ \E t \in Tids : Resume(t)

FairJoin == Init /\ [][NextJoin]_vars /\ Fairness

\* user programs: the system calls of the processes descending from the
\* process the main thread executes
NextUser ==
    \/ NextFork
    \/ \E t \in Tids, fd \in Fds, o \in Objs : Open(t, fd, o)
    \/ \E t \in Tids, fd \in Fds : Close(t, fd)

SpecUser == Init /\ [][NextUser]_vars

\* the pipe system call: a new pipe at descriptor fd of the caller
PipeCreate(t, fd, o) ==
    /\ CanRun(t)
    /\ proc[t] # NULL
    /\ pipe.obj = NULL
    /\ iotab[proc[t]][fd] = NULL
    /\ refcnt[o] = 0
    /\ CommitP([P EXCEPT !.refcnt[o] = 1, !.iotab[proc[t]][fd] = o])
    /\ pipe' = [pipe EXCEPT !.obj = o]
    /\ ev' = NoEvent
    /\ UNCHANGED <<thrtab, state, parent, proc, list_next, wait_cond, stack,
                   ready_list, cond, cur, prev, satp, halted, pc, jtid,
                   fork_tid, a0, wfi, unreaped, xfer>>
    /\ UNCHANGED <<ivars, cpu>>

\* thread t has a descriptor of the pipe
HasPipe(t) ==
    /\ proc[t] # NULL /\ pipe.obj # NULL
    /\ \E fd \in Fds : iotab[proc[t]][fd] = pipe.obj

\* the outcome r of iowrite_pipe in the writer t, whose call asked for n
\* bytes of which was bytes were done before
WriteOutcome(t, r, n, was) ==
    /\ Commit(r.k)
    /\ pipe' = r.pp
    /\ IF r.blocked
       THEN /\ pc' = [pc EXCEPT ![t] = "pwrite"]
            /\ xfer' = [xfer EXCEPT !.writer = t, !.wn = n, !.wacc = r.acc,
                                    !.wcnt = @ + (r.acc - was)]
            /\ ev' = NoEvent
       ELSE /\ pc' = [pc EXCEPT ![t] = "run"]
            /\ xfer' = [xfer EXCEPT !.writer = t, !.wn = 0, !.wacc = 0,
                                    !.wcnt = @ + (r.acc - was)]
            /\ ev' = Event("write", t, r.acc)
    /\ UNCHANGED <<jtid, fork_tid, wfi, proctab, iotab, refcnt, unreaped>>
    /\ UNCHANGED <<ivars, cpu>>

\* the write system call on the pipe: iowrite of the next n bytes
PipeWrite(t, n) ==
    /\ CanRun(t)
    /\ HasPipe(t)
    /\ xfer.writer \in {NULL, t}
    /\ xfer.wcnt + n <= MaxBytes
    /\ \E r \in {iowrite_pipe(K, pipe, xfer.wcnt + 1, n, 0)} :
          WriteOutcome(t, r, n, 0)

\* the outcome r of pipe_read in the reader t, whose call asked for n bytes
ReadOutcome(t, r, n) ==
    /\ Commit(r.k)
    /\ pipe' = r.pp
    /\ IF r.blocked
       THEN /\ pc' = [pc EXCEPT ![t] = "pread"]
            /\ xfer' = [xfer EXCEPT !.reader = t, !.rn = n]
            /\ ev' = NoEvent
       ELSE /\ pc' = [pc EXCEPT ![t] = "run"]
            /\ xfer' = [xfer EXCEPT !.reader = t, !.rn = 0,
                                    !.rd = @ \o r.data]
            /\ ev' = Event("read", t, Len(r.data))
    /\ UNCHANGED <<jtid, fork_tid, wfi, proctab, iotab, refcnt, unreaped>>
    /\ UNCHANGED <<ivars, cpu>>

\* the read system call on the pipe: one pipe_read of up to n bytes
PipeRead(t, n) ==
    /\ CanRun(t)
    /\ HasPipe(t)
    /\ xfer.reader \in {NULL, t}
    /\ \E r \in {pipe_read(K, pipe, n)} : ReadOutcome(t, r, n)

\* a thread woken in pipe_write or pipe_read returns from condition_wait,
\* tests the pipe again and goes on with its call
PipeResume(t) ==
    /\ halted = "" /\ cur = t
    /\ pc[t] \in {"pwrite", "pread"}
    /\ \E k1 \in {suspend_self_tail(K)} :
          IF pc[t] = "pwrite"
          THEN \E r \in {iowrite_pipe(k1, pipe, xfer.wcnt - xfer.wacc + 1,
                                      xfer.wn, xfer.wacc)} :
                  WriteOutcome(t, r, xfer.wn, xfer.wacc)
          ELSE \E r \in {pipe_read(k1, pipe, xfer.rn)} :
                  ReadOutcome(t, r, xfer.rn)

\* two processes that share a pipe, one writing and one reading
NextPipe ==
    \/ \E t \in Tids : Start(t)
    \/ \E t \in Tids : Yield(t)
    \/ IdleYield
    \/ IdleWfi
    \/ \E t \in Tids : Resume(t)
    \/ \E t \in Tids : Exec(t)
    \/ \E t \in Tids, ua0 \in UserA0 : Fork(t, ua0)
    \/ \E t \in Tids : ForkReturn(t)
    \/ \E t \in Tids, fd \in Fds, o \in Objs : PipeCreate(t, fd, o)
    \/ \E t \in Tids, n \in 1 .. MaxBytes : PipeWrite(t, n)
    \/ \E t \in Tids, n \in 1 .. PIPE_CAP : PipeRead(t, n)
    \/ \E t \in Tids : PipeResume(t)

SpecPipe == Init /\ [][NextPipe]_vars

\* Scheduling of the two processes: the running thread goes on executing and
\* the timer makes it yield, as in Progress; a thread woken in a pipe
\* operation goes on with it; and the reading process is a loop of reads,
\* so whenever it can run again it reads again.
ProgressPipe ==
    \/ Progress
    \/ \E t \in Tids : PipeResume(t)

ReaderReads == \E t \in Tids, n \in 1 .. PIPE_CAP : PipeRead(t, n)

\* the two-process scenario of the user programs: the first process creates
\* the pipe and then forks once, so that both hold it
NoChild == \A t \in Tids : t \in {MAIN_TID, IDLE_TID} \/ thrtab[t] = NULL

ForkReader ==
    /\ pipe.obj # NULL
    /\ NoChild
    /\ \E ua0 \in UserA0 : Fork(MAIN_TID, ua0)

NextBackPressure ==
    \/ \E t \in Tids : Start(t)
    \/ \E t \in Tids : Yield(t)
    \/ IdleYield
    \/ IdleWfi
    \/ \E t \in Tids : Resume(t)
    \/ \E t \in Tids : Exec(t)
    \/ ForkReader
    \/ \E t \in Tids : ForkReturn(t)
    \/ \E t \in Tids, fd \in Fds, o \in Objs : PipeCreate(t, fd, o)
    \/ \E t \in Tids, n \in 1 .. MaxBytes : PipeWrite(t, n)
    \/ \E t \in Tids, n \in 1 .. PIPE_CAP : PipeRead(t, n)
    \/ \E t \in Tids : PipeResume(t)

FairPipe ==
    /\ Init /\ [][NextBackPressure]_vars
    /\ WF_vars(ProgressPipe) /\ SF_vars(ReaderReads)

TypeOK ==
    /\ state \in [Tids -> ThreadStates]
    /\ cur \in Tids
    /\ \A o \in Objs : refcnt[o] \in 0 .. (NPROC * NFD)


\* ---------------------------------------------------- I/O object actions
\* the literals and wrappers that iolit_init and ioterm_init can have made
\* and a sequence of calls can have left
InitIO ==
    /\ InitKernel
    /\ \E sz \in 0 .. MaxLit : lit = iolit(sz)
    /\ term \in [cr_in : {0, 1}, cr_out : {0, 1}]
    /\ io = NoCall
    /\ raw = RawDev(<<>>)

\* io_lit_read of n bytes on the literal
LitRead(n) ==
    /\ \E r \in {io_lit_read(lit, n)} :
          /\ lit' = r.lit
          /\ io' = CallRec("read", "lit", n, "", NULL, r.ret, r.data, <<>>, NULL)
    /\ UNCHANGED <<kvars, term, raw>>

\* io_lit_write of n bytes on the literal
LitWrite(n) ==
    /\ \E r \in {io_lit_write(lit, UserBuf(n), n)} :
          /\ lit' = r.lit
          /\ io' = CallRec("write", "lit", n, "", NULL, r.ret, r.data, <<>>, NULL)
    /\ UNCHANGED <<kvars, term, raw>>

\* io_lit_ioctl on the literal
LitCtl(cmd, arg) ==
    /\ \E r \in {io_lit_ioctl(lit, cmd, arg)} :
          /\ lit' = r.lit
          /\ io' = CallRec("ctl", "lit", 0, cmd, arg, r.ret, <<>>, <<>>, r.out)
    /\ UNCHANGED <<kvars, term, raw>>

\* ioterm_ioctl on the wrapper
TermCtl(cmd, arg) ==
    /\ \E r \in {ioterm_ioctl(term, lit, cmd, arg)} :
          /\ lit' = r.lit
          /\ term' = r.term
          /\ io' = CallRec("ctl", "term", 0, cmd, arg, r.ret, <<>>, <<>>, r.out)
    /\ UNCHANGED <<kvars, raw>>

\* ioread_full of n bytes on the literal
LitReadFull(n) ==
    /\ \E r \in {ioread_full(LitObj(lit), n)} :
          /\ lit' = r.o.lit
          /\ io' = CallRec("ioread_full", "lit", n, "", NULL, r.ret, r.buf,
                           r.calls, NULL)
    /\ UNCHANGED <<kvars, term, raw>>

\* iowrite of n bytes on the literal
LitWriteFull(n) ==
    /\ \E r \in {iowrite(LitObj(lit), UserBuf(n), n)} :
          /\ lit' = r.o.lit
          /\ io' = CallRec("iowrite", "lit", n, "", NULL, r.ret, r.buf,
                           r.calls, NULL)
    /\ UNCHANGED <<kvars, term, raw>>

\* ioread_full of n bytes on an object that answers as o does
DevReadFull(o, n) ==
    /\ \E r \in {ioread_full(o, n)} :
          io' = LoopRec("ioread_full", o, n, r)
    /\ UNCHANGED <<kvars, lit, term, raw>>

\* iowrite of n bytes on an object that answers as o does
DevWrite(o, n) ==
    /\ \E r \in {iowrite(o, UserBuf(n), n)} :
          io' = LoopRec("iowrite", o, n, r)
    /\ UNCHANGED <<kvars, lit, term, raw>>

DevObjs == {NoOp} \cup {DevObj(sc) : sc \in Scripts}

NextIO ==
    \/ \E n \in 0 .. MaxReq : LitRead(n)
    \/ \E n \in 0 .. MaxReq : LitWrite(n)
    \/ \E cmd \in Cmds, arg \in 0 .. (MaxLit + 1) : LitCtl(cmd, arg)
    \/ \E cmd \in Cmds, arg \in 0 .. (MaxLit + 1) : TermCtl(cmd, arg)
    \/ \E n \in 0 .. MaxReq : LitReadFull(n)
    \/ \E n \in 0 .. MaxReq : LitWriteFull(n)

SpecIO == InitIO /\ [][NextIO]_vars

\* the loops of ioread_full and iowrite over every object
NextLoop ==
    \/ \E o \in DevObjs, n \in 0 .. MaxReq : DevReadFull(o, n)
    \/ \E o \in DevObjs, n \in 0 .. MaxReq : DevWrite(o, n)

SpecLoop == Init /\ [][NextLoop]_vars

\* ------------------------------------------- line-discipline actions
Streams == UNION {[1 .. n -> Chars] : n \in 0 .. MaxStream}

\* a wrapper that ioterm_init has made over a raw device with some input
InitTerm ==
    /\ InitKernel
    /\ lit = iolit(MaxLit)
    /\ term = [cr_in |-> 0, cr_out |-> 0]
    /\ io = NoCall
    /\ \E s \in Streams : raw = RawDev(s)

\* ioterm_read of up to len bytes
TermRead(len) ==
    /\ io.op # "hung"
    /\ \E r \in ioterm_read(term, raw.in, len, <<>>) :
          /\ term' = r.term
          /\ raw' = [raw EXCEPT
                       !.in = r.in,
                       !.taken = @ \o SubSeq(raw.in, 1, Len(raw.in) - Len(r.in)),
                       !.got = @ \o r.data]
          /\ io' = CallRec(IF r.returns THEN "ioterm_read" ELSE "hung", "term",
                           len, "", NULL, r.ret, r.data, r.calls, NULL)
    /\ UNCHANGED <<kvars, lit>>

NextTerm ==
    \/ \E len \in 1 .. MaxReq : TermRead(len)

SpecTerm == InitTerm /\ [][NextTerm]_vars

\* the buffers of a write
Buffers == UNION {[1 .. n -> Chars] : n \in 1 .. MaxReq}

\* ioterm_write of the buffer buf
TermWrite(buf) ==
    /\ Len(raw.put) + Len(buf) <= MaxStream
    /\ \E r \in {ioterm_write(term, buf)} :
          /\ term' = r.term
          /\ raw' = [raw EXCEPT !.out = @ \o r.out, !.put = @ \o buf]
          /\ io' = CallRec("ioterm_write", "term", Len(buf), "", NULL, r.ret,
                           buf, <<>>, r.out)
    /\ UNCHANGED <<kvars, lit>>

NextTermOut ==
    \/ \E buf \in Buffers : TermWrite(buf)

SpecTermOut == Init /\ [][NextTermOut]_vars

\* the record of a write on the wrapper: the wrapper's cr_out bit before it,
\* the caller's buffer, the value returned, the calls of ioterm_write made,
\* what the raw device was given and, call by call, the places of the call's
\* buffer it was given them from
TermCall(op, cr, buf, ret, calls, out, sent) ==
    [op |-> op, kind |-> "term", n |-> Len(buf), cr_out |-> cr, buf |-> buf,
     ret |-> ret, calls |-> calls, out |-> out, sent |-> sent]

\* one ioterm_write of the buffer buf, by a caller that looks at its value
TermWriteOnce(buf) ==
    /\ Len(raw.put) + Len(buf) <= MaxStream
    /\ \E r \in {ioterm_write(term, buf)} :
          /\ term' = r.term
          /\ raw' = [raw EXCEPT !.out = @ \o r.out, !.put = @ \o buf]
          /\ io' = TermCall("ioterm_write", term.cr_out, buf, r.ret,
                            <<Call(0, Len(buf), r.ret)>>, r.out, <<r.sent>>)
    /\ UNCHANGED <<kvars, lit>>

\* iowrite of the buffer buf on the wrapper
TermIoWrite(buf) ==
    /\ Len(raw.put) + Len(buf) <= MaxStream
    /\ \E r \in {iowrite_term_loop(TermObj(term, <<>>), buf, Len(buf), 0,
                                   <<>>, <<>>)} :
          /\ term' = r.o.term
          /\ raw' = [raw EXCEPT !.out = @ \o r.buf, !.put = @ \o buf]
          /\ io' = TermCall("iowrite", term.cr_out, buf, r.ret, r.calls,
                            r.buf, r.o.sent)
    /\ UNCHANGED <<kvars, lit>>

NextTermLoop ==
    \/ \E buf \in Buffers : TermWriteOnce(buf)
    \/ \E buf \in Buffers : TermIoWrite(buf)

SpecTermLoop == Init /\ [][NextTermLoop]_vars

\* what is typed before the line end, and the line ends
Typed == {"a", "b", BS, DEL, LBRACKET}
Lines == {body \o e : body \in UNION {[1 .. k -> Typed] : k \in 0 .. MaxLine},
                      e \in {<<CR>>, <<LF>>, <<CR, LF>>}}

\* a wrapper over a raw device on which one line is typed
InitLine ==
    /\ InitKernel
    /\ lit = iolit(MaxLit)
    /\ term = [cr_in |-> 0, cr_out |-> 0]
    /\ io = NoCall
    /\ \E s \in Lines : raw = RawDev(s)

\* the record of an ioterm_getsn: the size n of the buffer, the raw input it
\* was called on, the memory around the buffer after it, the offsets it
\* wrote and the lowest write position
LineCall(n, in, r) ==
    [op |-> "ioterm_getsn", kind |-> "term", n |-> n, typed |-> in,
     ret |-> r.ret, mem |-> r.mem, wrote |-> r.wrote, low |-> r.low]

\* ioterm_getsn into a buffer of n bytes
TermGetsn(n) ==
    /\ io.op = "none"
    /\ \E r \in {ioterm_getsn(term, raw.in, n)} :
          /\ term' = r.term
          /\ raw' = [raw EXCEPT
                       !.in = r.in,
                       !.taken = @ \o SubSeq(raw.in, 1, Len(raw.in) - Len(r.in)),
                       !.out = @ \o r.out]
          /\ io' = LineCall(n, raw.in, r)
    /\ UNCHANGED <<kvars, lit>>

NextLine ==
    \/ \E n \in 1 .. MaxReq : TermGetsn(n)

SpecLine == InitLine /\ [][NextLine]_vars

\* ------------------------------------------------------ derived views
Occupied(t) == thrtab[t] # NULL

ReadySeq == ListSeq(ready_list, list_next)

WaitSeq(c) == ListSeq(cond[c], list_next)

Count(x, sq) == Cardinality({i \in 1 .. Len(sq) : sq[i] = x})

\* ----------------------------------------------------------------- claims

\* C1: in every reachable scheduler state exactly one thread of the thread
\* table has state RUNNING, and it is the current thread (CURTHR).
C1_OneRunningIsCurrent ==
    /\ Cardinality({t \in Tids : Occupied(t) /\ state[t] = "RUNNING"}) = 1
    /\ Occupied(cur)
    /\ state[cur] = "RUNNING"

\* C1 witness: a forked child is running while its parent is READY, another
\* thread has exited and another one waits.
C1_Witness ==
    /\ halted = ""
    /\ pc[cur] = "fork_ret" /\ fork_tid[cur] = cur
    /\ state[parent[cur]] = "READY"
    /\ \E t \in Tids : Occupied(t) /\ state[t] \in {"EXITED", "WAITING"}

\* C2: every READY thread is on the ready list exactly once, and the ready
\* list holds nothing but READY threads of the table.
C2_ReadyListExact ==
    /\ Len(ReadySeq) <= NTHR
    /\ \A t \in Tids :
          Count(t, ReadySeq) = IF Occupied(t) /\ state[t] = "READY" THEN 1 ELSE 0

\* C2 witness: three threads are READY at once, one of them woken by a
\* broadcast and one of them a forking parent.
C2_Witness ==
    /\ Len(ReadySeq) >= 3
    /\ \E i \in 1 .. Len(ReadySeq) : pc[ReadySeq[i]] = "cwait"
    /\ \E i \in 1 .. Len(ReadySeq) : pc[ReadySeq[i]] \in {"fork_ret", "yield"}

\* C3: every WAITING thread is on the wait list of exactly one condition,
\* which is its wait_cond; no thread is on a wait list and on the ready list.
C3_WaitListExact ==
    /\ \A t \in Tids :
          Occupied(t) /\ state[t] = "WAITING" =>
             /\ wait_cond[t] \in CondIds
             /\ \A c \in CondIds :
                   Count(t, WaitSeq(c)) = IF c = wait_cond[t] THEN 1 ELSE 0
    /\ \A c \in CondIds :
          Range(WaitSeq(c)) \cap Range(ReadySeq) = {}

\* C3 witness: one thread waits for a child to exit and another waits on
\* the external condition, while some thread is READY.
C3_Witness ==
    /\ \E t \in Tids : state[t] = "WAITING" /\ wait_cond[t] = EXT_COND
    /\ \E t \in Tids : state[t] = "WAITING" /\ wait_cond[t] = child_exit(t)
    /\ ReadySeq # <<>>


Drop(n, sq) == SubSeq(sq, n + 1, Len(sq))

\* the wait list that a step empties (a broadcast), <<>> if it empties none
Woken ==
    IF \E c \in CondIds : WaitSeq(c) # <<>> /\ WaitSeq(c)' = <<>>
    THEN WaitSeq(CHOOSE c \in CondIds : WaitSeq(c) # <<>> /\ WaitSeq(c)' = <<>>)
    ELSE <<>>

\* the step hands the CPU to a thread created by fork in this step
ForkSwitch == ~Occupied(cur') /\ cur' # cur

FifoStep ==
    LET base == ReadySeq \o Woken IN
    /\ \E n \in {0, 1} :
          /\ n = 1 <=> (cur' # cur /\ ~ForkSwitch)
          /\ n = 1 => base # <<>> /\ cur' = Head(base)
          /\ \/ ReadySeq' = Drop(n, base)
             \/ \E t \in Tids : ReadySeq' = Append(Drop(n, base), t)
    /\ \A c \in CondIds :
          \/ WaitSeq(c)' = WaitSeq(c)
          \/ WaitSeq(c)' = Append(WaitSeq(c), cur)
          \/ WaitSeq(c)' = <<>>

\* C4: the ready list is FIFO.  Every step leaves the ready list as it was
\* but for its head, which suspend_self dispatches, and for what is appended
\* at its tail: the waiters of a broadcast condition, in the order of their
\* condition_wait calls and behind every thread already ready, or the
\* yielding, forking or spawned thread.
C4_ReadyListFifo == [][FifoStep]_vars

\* C4 witness: two threads woken by one broadcast sit on the ready list in
\* the order in which they waited, behind a thread that was ready before.
C4_Witness ==
    /\ Len(ReadySeq) >= 3
    /\ pc[ReadySeq[1]] # "cwait"
    /\ \E i, j \in 2 .. Len(ReadySeq) :
          /\ i < j
          /\ pc[ReadySeq[i]] = "cwait" /\ pc[ReadySeq[j]] = "cwait"


\* the step is the return of call op with a thread id as its value
Returns(op) == ev'.op = op /\ ev'.val # NULL /\ ev'.val >= 1

JoinReturnStep ==
    Returns("join") =>
       LET tid == ev'.val IN
       /\ thrtab[tid] # NULL /\ state[tid] = "EXITED" /\ parent[tid] = ev'.thr
       /\ thrtab'[tid] = NULL
       /\ \A u \in Tids \ {tid} : thrtab'[u] = thrtab[u] /\ state'[u] = state[u]

\* C5: thread_join(tid) by the parent returns tid only when thread tid is
\* EXITED; on return slot tid is free and no other slot or state changed.
C5_JoinReturnsAfterExit == [][JoinReturnStep]_vars

\* C5 witness: a thread_join that had to wait has returned the child's tid
\* while another thread is still in the table.
C5_Witness ==
    /\ ev.op = "join" /\ ev.val # NULL /\ ev.val >= 1
    /\ ~Occupied(ev.val)
    /\ \E u \in Tids \ {MAIN_TID, IDLE_TID} : Occupied(u)

ChildrenOf(t) == {c \in Tids : c >= 1 /\ Occupied(c) /\ parent[c] = t}

JoinAnyStep ==
    /\ Returns("join_any") =>
          LET tid == ev'.val IN
          /\ thrtab[tid] # NULL /\ parent[tid] = ev'.thr
          /\ state[tid] = "EXITED"
          /\ {u \in Tids : Occupied(u)} \ {u \in Tids : Occupied(u)'} = {tid}
          /\ {u \in Tids : Occupied(u)'} \subseteq {u \in Tids : Occupied(u)}
    /\ \A t \in Tids :
          pc[t] = "run" /\ pc'[t] = "joinany" =>
             /\ ChildrenOf(t) # {}
             /\ \A c \in ChildrenOf(t) : state[c] # "EXITED"

\* C6: every thread_join_any reaps exactly one EXITED child of its caller
\* and returns its tid, without blocking when one exists; a tid returned by
\* spawn or fork is returned by a join exactly once, when its slot is freed
\* (so k join_any calls after k children exited return the k spawned tids).
C6_JoinAnyReapsOne ==
    /\ [][JoinAnyStep]_vars
    /\ [](halted # "spurious child_exit signal")
    /\ [](\A t \in Tids :
            unreaped[t] = IF Occupied(t) /\ t \notin {MAIN_TID, IDLE_TID}
                          THEN 1 ELSE 0)

\* C6 witness: thread_join_any has returned one child while another child
\* of the caller has exited too and is still to be reaped.
C6_Witness ==
    /\ ev.op = "join_any" /\ ev.val # NULL /\ ev.val >= 1
    /\ \E c \in ChildrenOf(ev.thr) : state[c] = "EXITED"

ExitStep ==
    \A t \in Tids :
       /\ Occupied(t) /\ state[t] = "EXITED" =>
             \/ Occupied(t)' /\ state'[t] = "EXITED"
             \/ ~Occupied(t)'
       /\ Occupied(t) /\ state[t] = "RUNNING" /\ state'[t] = "EXITED" =>
             /\ cur' # t
             /\ WaitSeq(child_exit(parent[t]))' = <<>>
             /\ \A w \in Range(WaitSeq(child_exit(parent[t]))) :
                   state'[w] \in {"READY", "RUNNING"}

\* C7: thread_exit of a thread other than main does not return: an EXITED
\* thread stays EXITED until its slot is recycled, is not the current thread
\* and is on no list; the panic after suspend_self is not reached; the
\* parent's child_exit is broadcast in the step that switches it away.
C7_ExitNeverReturns ==
    /\ [][ExitStep]_vars
    /\ [](halted # "thread_exit() failed")
    /\ [](\A t \in Tids :
            Occupied(t) /\ state[t] = "EXITED" =>
               /\ cur # t
               /\ t \notin Range(ReadySeq)
               /\ \A c \in CondIds : t \notin Range(WaitSeq(c)))

\* C7 witness: a thread has exited and its parent, which waited in a join,
\* has been made runnable by the broadcast.
C7_Witness ==
    \E t \in Tids :
       /\ Occupied(t) /\ state[t] = "EXITED" /\ parent[t] # NULL
       /\ pc[parent[t]] \in {"join", "joinany"}
       /\ state[parent[t]] \in {"READY", "RUNNING"}


ForkStep ==
    \A t \in Tids :
       /\ pc[t] = "run" /\ pc'[t] = "fork_ret" =>
             /\ fork_tid'[t] # t
             /\ a0'[fork_tid'[t]] = a0'[t]
       /\ pc[t] = "fork_ret" /\ pc'[t] = "run" =>
             /\ ev' = Event("fork", t, a0'[t])
             /\ IF fork_tid[t] = t
                THEN /\ a0'[t] = 0
                     /\ a0'[parent[t]] = a0[parent[t]]
                ELSE /\ a0'[t] = fork_tid[t]
                     /\ a0'[t] > 0
                     /\ a0'[fork_tid[t]] = a0[fork_tid[t]]

\* C8: after a fork the parent's return value is the child's id, greater
\* than 0, and the child's is 0: the child's trap frame is a copy of the
\* parent's in which the child alone clears a0, leaving the parent's frame
\* as it is; and both threads get past the fork while the kernel runs.
C8_ForkReturnValues ==
    /\ [][ForkStep]_vars
    /\ \A t \in Tids : (pc[t] = "fork_ret") ~> (pc[t] = "run" \/ halted # "")

\* C8 witness: the parent has returned from fork with the id of its child,
\* which has returned 0 from the same fork.
C8_Witness ==
    /\ ev.op = "fork" /\ ev.val # NULL /\ ev.val >= 1
    /\ a0[ev.thr] = ev.val
    /\ Occupied(ev.val) /\ parent[ev.val] = ev.thr
    /\ pc[ev.val] # "fork_ret" /\ a0[ev.val] = 0

\* the descriptors of process pid that hold object o
Held(pid, o) == Cardinality({fd \in Fds : iotab[pid][fd] = o})

\* an open gives the new object one reference; a fork adds to every object
\* one reference per descriptor of the parent, which the child's table now
\* holds too; an exit takes back one per descriptor of the exiting process;
\* waiting for a child changes no count
RefStep ==
    /\ \A t \in Tids, fd \in Fds :
          (/\ proc[t] # NULL /\ proc'[t] = proc[t]
           /\ proctab[proc[t]] /\ proctab'[proc[t]]
           /\ iotab[proc[t]][fd] = NULL /\ iotab'[proc[t]][fd] # NULL)
          => refcnt'[iotab'[proc[t]][fd]] = 1
    /\ \A t \in Tids :
          (pc[t] = "run" /\ pc'[t] = "fork_ret") =>
             /\ iotab'[proc'[fork_tid'[t]]] = iotab[proc[t]]
             /\ \A o \in Objs : refcnt'[o] = refcnt[o] + Held(proc[t], o)
    /\ \A t \in Tids :
          (pc[t] = "run" /\ proc[t] # NULL
           /\ (pc'[t] = "exit" \/ halted' = "halt_success")) =>
             \A o \in Objs : refcnt'[o] = refcnt[o] - Held(proc[t], o)
    /\ ev'.op = "join" => refcnt' = refcnt

\* C9: the reference count of every I/O object equals the number of
\* descriptor slots of live processes that point to it, at every point of
\* any sequence of open, fork, close, exit and wait: 1 after the open, one
\* more for the child's copy of each descriptor after a fork, one less for
\* each descriptor of a process that exits.
C9_RefcountIsSlotCount ==
    /\ [](\A o \in Objs : refcnt[o] = Slots(P, o))
    /\ [][RefStep]_vars

\* C9 witness: a parent has been returned the id of its exited child by the
\* wait, and the object it still holds, which the child held too, has one
\* reference again.
C9_Witness ==
    /\ ev.op = "join" /\ ev.val # NULL /\ ev.val >= 1
    /\ proc[ev.thr] # NULL
    /\ \E fd \in Fds :
          /\ iotab[proc[ev.thr]][fd] # NULL
          /\ refcnt[iotab[proc[ev.thr]][fd]] = 1
          /\ Slots(P, iotab[proc[ev.thr]][fd]) = 1

TableFull == \A t \in Tids : thrtab[t] # NULL

SpawnFullStep ==
    (ev'.op = "spawn" /\ TableFull) =>
        /\ ev'.val < 0
        /\ halted' = ""
        /\ thrtab' = thrtab
        /\ ready_list' = ready_list /\ list_next' = list_next
        /\ state' = state

\* C10: a thread_spawn called when every slot of the thread table is
\* occupied returns an error value to its caller and leaves the thread
\* table, the ready list and the thread states as they were; the kernel
\* keeps running.
C10_FullTableSpawnReturnsError == [][SpawnFullStep]_vars

\* a thread_join that ends at once with the error value leaves the scheduler
\* as it was
JoinErrorStep ==
    (ev'.op = "join" /\ ev'.val = 0 - 1) =>
        /\ halted' = halted
        /\ thrtab' = thrtab /\ state' = state /\ parent' = parent
        /\ ready_list' = ready_list /\ cond' = cond /\ list_next' = list_next
        /\ cur' = cur /\ pc' = pc

\* C11: thread_join(tid) with tid outside 1..NTHR-1, with an empty slot tid
\* or with a thread tid that is not a child of the caller returns an error
\* at once: it does not block, reads nothing outside the thread table and
\* changes no thread state, slot or list.
C11_JoinErrorIsImmediate == [][JoinErrorStep]_vars

\* the threads that t created by spawn or fork and has not reaped
Created(t) == ChildrenOf(t) \ {IDLE_TID}

\* thread t calls thread_join_any in this step: it blocks in it, returns
\* from it or panics in it
CallsJoinAny(t) ==
    /\ pc[t] = "run" /\ cur = t
    /\ \/ pc'[t] = "joinany"
       \/ ev'.op = "join_any" /\ ev'.thr = t

JoinAnyChildlessStep ==
    \A t \in Tids :
        (CallsJoinAny(t) /\ Created(t) = {}) =>
            halted' = "thread_wait called by childless thread"

\* C12: thread_join_any called by a thread that has no children panics,
\* whoever the caller is: also the main thread before it has spawned a
\* thread panics and does not block.
C12_JoinAnyChildlessPanics == [][JoinAnyChildlessStep]_vars

\* C13: the idle thread always occupies its slot and is READY or RUNNING,
\* never WAITING or EXITED; so while another thread runs the ready list is
\* not empty, and neither assertion of suspend_self (ready list not empty,
\* dequeued thread READY) ever fails.
C13_IdleAlwaysRunnable ==
    /\ Occupied(IDLE_TID)
    /\ state[IDLE_TID] \in {"READY", "RUNNING"}
    /\ cur # IDLE_TID => ~tlempty(ready_list) /\ IDLE_TID \in Range(ReadySeq)
    /\ halted \notin {"assert !tlempty(ready_list)",
                      "assert next_thread->state == THREAD_READY"}

\* C13 witness: every other thread has blocked or exited; the last of them
\* found the idle thread on the ready list in suspend_self, and the idle
\* thread now runs with the ready list empty.
C13_Witness ==
    /\ cur = IDLE_TID /\ pc[IDLE_TID] = "run" /\ state[IDLE_TID] = "RUNNING"
    /\ tlempty(ready_list)
    /\ state[MAIN_TID] = "WAITING"
    /\ \E t \in Tids \ {MAIN_TID, IDLE_TID} : state[t] \in {"WAITING", "EXITED"}

\* the state of slot t; a recycled slot is a slot without a thread
SlotState(t) == IF Occupied(t) THEN state[t] ELSE "UNINIT"

SchedulerEdges ==
    {<<"UNINIT", "READY">>, <<"READY", "RUNNING">>, <<"RUNNING", "READY">>,
     <<"RUNNING", "WAITING">>, <<"WAITING", "READY">>,
     <<"RUNNING", "EXITED">>, <<"EXITED", "UNINIT">>}

\* the step creates thread t by fork: t takes the CPU from its parent
ForkCreates(t) ==
    /\ ~Occupied(t) /\ cur' = t /\ pc'[t] = "fork_ret"
    /\ parent'[t] = cur /\ state[cur] = "RUNNING" /\ state'[cur] = "READY"

StateMachineStep ==
    \A t \in Tids :
        SlotState(t)' # SlotState(t) =>
            /\ <<SlotState(t), SlotState(t)'>> \in SchedulerEdges
            /\ SlotState(t)' # "STOPPED"

\* C14 as stated: a thread's state changes only along UNINIT-READY,
\* READY-RUNNING, RUNNING-READY, RUNNING-WAITING, WAITING-READY,
\* RUNNING-EXITED and EXITED-recycled, and STOPPED is never entered.
C14_OnlySchedulerEdges == [][StateMachineStep]_vars

StateMachineForkStep ==
    \A t \in Tids :
        SlotState(t)' # SlotState(t) =>
            /\ \/ <<SlotState(t), SlotState(t)'>> \in SchedulerEdges
               \/ /\ <<SlotState(t), SlotState(t)'>> = <<"UNINIT", "RUNNING">>
                  /\ ForkCreates(t)
            /\ SlotState(t)' # "STOPPED"
            /\ SlotState(t)' = "READY" /\ SlotState(t) = "UNINIT"
                  => ev'.op = "spawn" /\ ev'.val = t

\* C14 amended: a thread's state changes only along those transitions and
\* along UNINIT-RUNNING for the child that a fork creates, which takes the
\* CPU at once while the forking parent goes from RUNNING to READY; STOPPED
\* is never entered.
C14_SchedulerEdgesAndFork ==
    /\ [][StateMachineForkStep]_vars
    /\ [](\A t \in Tids : state[t] # "STOPPED")

\* C14 witness: a thread made by fork runs without ever having been READY,
\* its parent is READY behind the idle thread, and a third thread that went
\* through spawn, dispatch and exit is EXITED.
C14_Witness ==
    \E t \in Tids :
        /\ Occupied(t) /\ cur = t /\ fork_tid[t] = t /\ pc[t] = "fork_ret"
        /\ state[t] = "RUNNING"
        /\ state[parent[t]] = "READY" /\ parent[t] \in Range(ReadySeq)
        /\ \E u \in Tids : Occupied(u) /\ state[u] = "EXITED"

FreeSlots == {u \in Tids : ~Occupied(u)}

\* a thread appears in slot t: the slot was free, it is the lowest free one
\* and neither main's nor the idle thread's, the step is a spawn returning t
\* or a fork whose child is t, and with only main and idle present t is 1
NewThreadStep ==
    /\ \A t \in Tids :
          (~Occupied(t) /\ thrtab'[t] # NULL) =>
             /\ \A u \in FreeSlots : t <= u
             /\ t \notin {MAIN_TID, IDLE_TID}
             /\ \/ ev'.op = "spawn" /\ ev'.val = t /\ ev'.thr = cur
                \/ fork_tid'[cur] = t /\ cur' = t
             /\ FreeSlots = Tids \ {MAIN_TID, IDLE_TID} => t = 1
    /\ (ev'.op = "spawn" /\ halted' = "") =>
          ~Occupied(ev'.val) /\ thrtab'[ev'.val] # NULL
    /\ (ev'.op = "fork" /\ ev'.val # 0) =>
          /\ ev'.val = fork_tid[cur]
          /\ ev'.val \notin {MAIN_TID, IDLE_TID}
          /\ thrtab[ev'.val] # NULL => parent[ev'.val] = cur

\* C15: spawn and fork put the new thread in the lowest-numbered free slot
\* of the thread table and return its number: never 0, never the idle
\* thread's slot NTHR-1, never the slot of a thread not yet recycled; the
\* first fork, with only main and idle present, yields 1, and a slot freed
\* by a join is taken again when it is the lowest free one.
C15_LowestFreeSlot == [][NewThreadStep]_vars

\* C15 witness: spawn has returned 1 while thread 2, created after the
\* first thread 1, is still in the table: slot 1 was freed by a join and
\* taken again as the lowest free slot.
C15_Witness ==
    /\ ev.op = "spawn" /\ ev.val = 1 /\ halted = ""
    /\ Occupied(1) /\ Occupied(2)
    /\ state[2] = "EXITED"

\* the bytes the writer's pipe_write calls have accepted, in order: the
\* writer submits the bytes 1, 2, 3, ...
Written == [i \in 1 .. xfer.wcnt |-> i]

\* the bytes in the pipe, from its head
InPipe == [j \in 1 .. pipe.fill |-> pipe.buf[Slot(pipe.head + j - 1)]]

\* a read returns at least one byte and no more than the pipe held, and
\* exactly the bytes that were at its head
PipeReadStep ==
    ev'.op = "read" =>
        /\ ev'.val >= 1 /\ ev'.val <= pipe.fill
        /\ xfer'.rd = xfer.rd \o SubSeq(InPipe, 1, ev'.val)
        /\ pipe'.fill = pipe.fill - ev'.val

\* C16: with one writer and one reader the bytes returned by the completed
\* reads are a prefix of the bytes accepted by the completed writes, and
\* the bytes accepted and not yet read are in the pipe in their order, also
\* across the wrap-around of the circular buffer: no byte is lost,
\* duplicated or reordered, and a read after a write gets the same bytes.
C16_PipeFifo ==
    /\ [](/\ Len(xfer.rd) <= xfer.wcnt
          /\ xfer.rd = SubSeq(Written, 1, Len(xfer.rd))
          /\ xfer.rd \o InPipe = Written)
    /\ [][PipeReadStep]_vars

\* C16 witness: a read of PIPE_CAP bytes that began in the middle of the
\* buffer, so that it wrapped around, has returned the bytes written.
C16_Witness ==
    /\ ev.op = "read" /\ ev.val = PIPE_CAP
    /\ pipe.head # 0
    /\ Len(xfer.rd) > PIPE_CAP
    /\ xfer.rd = SubSeq(Written, 1, Len(xfer.rd))

\* the writer is blocked in a write that a thread other than itself reads
BlockedWrite ==
    /\ xfer.wn # 0
    /\ xfer.reader # NULL /\ xfer.reader # xfer.writer

\* a thread waits on not_full only while the pipe is full, and a thread is
\* taken off not_full only by a step that drains the pipe
BackPressureStep ==
    \A t \in Tids :
        /\ (pc[t] = "run" /\ pc'[t] = "pwrite") =>
              /\ pipe'.fill = PIPE_CAP
              /\ state'[t] = "WAITING" /\ wait_cond'[t] = NOT_FULL
        /\ (wait_cond[t] = NOT_FULL /\ wait_cond'[t] # NOT_FULL) =>
              /\ ev'.op = "read" /\ pipe'.fill < PIPE_CAP
              /\ state'[t] = "READY"

\* C17: a write on a full pipe blocks, the writer WAITING on not_full while
\* the pipe stays full, until a read drains bytes and makes it READY; the
\* fill count never exceeds the capacity; and against a reading process a
\* blocked write is completed and every byte it wrote is read, in order.
C17_PipeBackPressure ==
    /\ [](pipe.fill <= PIPE_CAP)
    /\ [](\A t \in Tids : state[t] = "WAITING" /\ wait_cond[t] = NOT_FULL
                             => pipe.fill = PIPE_CAP /\ pc[t] = "pwrite")
    /\ [][BackPressureStep]_vars
    /\ BlockedWrite ~> (xfer.wn = 0 \/ halted # "")
    /\ \A m \in 1 .. MaxBytes :
          (BlockedWrite /\ xfer.wcnt - xfer.wacc + xfer.wn = m)
             ~> ((Len(xfer.rd) >= m /\ xfer.rd = SubSeq(Written, 1, Len(xfer.rd)))
                 \/ halted # "")

\* C17 witness: one write of twice the capacity has completed after it had
\* blocked, and two reads of the capacity have returned all its bytes.
C17_Witness ==
    /\ xfer.wcnt = 2 * PIPE_CAP /\ xfer.wn = 0
    /\ ev.op = "read" /\ ev.val = PIPE_CAP
    /\ xfer.rd = [i \in 1 .. (2 * PIPE_CAP) |-> i]
    /\ pipe.fill = 0

\* the i-th answer of an object known by its answers, to a call for len bytes
Answer(script, i, len) ==
    IF i > Len(script) THEN 0
    ELSE IF script[i] < 0 THEN script[i]
    ELSE Min(script[i], len)

\* C18: ioread_full and iowrite call the object with the n - acc bytes still
\* missing at offset acc, go on only after a positive count, and return n
\* when acc has reached n, the code of a call that returned a negative code,
\* and the bytes accumulated when a call returned 0; without the operation
\* they return -ENOTSUP and call nothing; the result never exceeds n.
C18_IoLoops ==
    io.op \in {"ioread_full", "iowrite"} =>
        LET k == Len(io.calls)
            last == io.calls[k]
        IN IF io.kind = "none"
           THEN io.ret = -ENOTSUP /\ k = 0 /\ io.buf = <<>>
           ELSE /\ \A i \in 1 .. k :
                      /\ io.calls[i].off = IF i = 1 THEN 0
                                           ELSE io.calls[i - 1].off
                                                + io.calls[i - 1].cnt
                      /\ io.calls[i].off < io.n
                      /\ io.calls[i].len = io.n - io.calls[i].off
                      /\ i < k => io.calls[i].cnt > 0
                      /\ io.kind = "dev" =>
                            io.calls[i].cnt = Answer(io.script, i,
                                                     io.calls[i].len)
                /\ IF k > 0 /\ last.cnt < 0 THEN io.ret = last.cnt
                   ELSE IF k > 0 /\ last.cnt = 0 THEN io.ret = last.off
                   ELSE /\ io.ret = io.n
                        /\ k = 0 => io.n = 0
                        /\ k > 0 => last.off + last.cnt = io.n
                /\ io.ret >= 0 => Len(io.buf) = io.ret
                /\ io.ret <= io.n

\* C18 witness: an ioread_full of MaxReq bytes that reached n with its third
\* call, each call having transferred a part
C18_Witness ==
    /\ io.op = "ioread_full" /\ io.kind = "dev"
    /\ Len(io.calls) = MaxCalls /\ io.ret = io.n /\ io.n = MaxReq

\* a step that is a read or write of the literal, and one that is a loop
\* over the literal for a range that lies within it
LitTransferStep ==
    /\ (io'.kind = "lit" /\ io'.op \in {"read", "write"} /\ io'.ret >= 0) =>
          /\ io'.ret = Min(io'.n, lit.size - lit.pos)
          /\ io'.ret = lit'.pos - lit.pos
    /\ (/\ io'.kind = "lit" /\ io'.op \in {"ioread_full", "iowrite"}
        /\ lit.pos + io'.n <= lit.size) =>
          /\ io'.ret = io'.n
          /\ lit'.pos = lit.pos + io'.n
          /\ Len(io'.buf) = io'.n

\* C19: a successful read or write of a literal returns the number of bytes
\* transferred, min(requested, size - pos), which is the advance of pos; so
\* ioread_full and iowrite over a literal transfer the whole requested range
\* and return its length.
C19_LitReturnsBytesTransferred == [][LitTransferStep]_vars

\* the commands a literal supports
LitCmds == {"GETLEN", "SETPOS", "GETPOS", "GETBLKSZ"}

\* a step that is a ctl call with a command the object does not support
UnsupportedCtlStep ==
    (/\ io'.op = "ctl"
     /\ \/ io'.kind = "lit" /\ io'.cmd \notin LitCmds
        \/ io'.kind = "term" /\ io'.cmd = "SETPOS") =>
        /\ io'.ret = -ENOTSUP
        /\ io'.out = NULL
        /\ lit' = lit /\ term' = term

\* C20: a ctl command that the object does not support returns -ENOTSUP and
\* changes nothing: a command other than GETLEN, SETPOS, GETPOS and GETBLKSZ
\* on a literal, and SETPOS on the line-discipline wrapper.
C20_UnsupportedCtlIsENOTSUP == [][UnsupportedCtlStep]_vars

\* C21: a SETPOS on a literal to a position beyond its size is rejected with
\* -EINVAL, and so after any sequence of SETPOS, read and write calls the
\* literal's position is within 0 .. size.
C21_LitPosInRange ==
    /\ 0 <= lit.pos /\ lit.pos <= lit.size
    /\ (io.op = "ctl" /\ io.kind = "lit" /\ io.cmd = "SETPOS"
        /\ io.arg > lit.size) => io.ret = -EINVAL

\* the input normalization as the claim states it, character by character:
\* a \r gives \n (alone or with the \n after it), a \n after a \r gives
\* nothing, being the rest of a \r\n, and any other character gives itself
NormIn(s) ==
    LET one(i) == IF s[i] = CR THEN <<LF>>
                  ELSE IF s[i] = LF /\ i > 1 /\ s[i - 1] = CR THEN <<>>
                  ELSE <<s[i]>>
        f[i \in 0 .. Len(s)] == IF i = 0 THEN <<>> ELSE f[i - 1] \o one(i)
    IN f[Len(s)]

\* C22: whatever the raw input and however the reads split it, the bytes that
\* the calls of ioterm_read have returned are the normalized input taken so
\* far: \r\n, \r alone and \n alone each give one \n, every other byte is
\* unchanged; a call that returns, returns at least one byte.
C22_InputNormalization ==
    /\ raw.got = NormIn(raw.taken)
    /\ (io.op = "ioterm_read" /\ io.ret >= 0) =>
          io.ret = Len(io.buf) /\ io.ret >= 1 /\ io.ret <= io.n

\* C22 witness: the input \r, \n, a read one byte at a time: the second call
\* drops the \n that ends the \r\n and reads again
C22_Witness ==
    /\ raw.taken = <<CR, LF, "a">>
    /\ raw.got = <<LF, "a">>
    /\ io.op = "ioterm_read" /\ io.buf = <<"a">> /\ Len(io.calls) = 2

\* the output normalization as the claim states it, character by character:
\* a \r gives \r\n (alone or with the \n after it), a \n after a \r gives
\* nothing, being the rest of a \r\n, a \n elsewhere gives \r\n, and any
\* other character gives itself
NormOut(s) ==
    LET one(i) == IF s[i] = CR THEN <<CR, LF>>
                  ELSE IF s[i] = LF /\ i > 1 /\ s[i - 1] = CR THEN <<>>
                  ELSE IF s[i] = LF THEN <<CR, LF>>
                  ELSE <<s[i]>>
        f[i \in 0 .. Len(s)] == IF i = 0 THEN <<>> ELSE f[i - 1] \o one(i)
    IN f[Len(s)]

\* C23: whatever is written through ioterm_write and however the calls split
\* it, the bytes delivered to the raw device are the normalized stream: \n
\* alone, \r alone and \r\n each give one \r\n, every other byte is
\* delivered unchanged and in order.
C23_OutputNormalization == raw.out = NormOut(raw.put)

\* C23 witness: a \r\n split between two calls, delivered as one \r\n
C23_Witness ==
    /\ raw.put = <<"a", CR, LF, "a">>
    /\ io.op = "ioterm_write" /\ io.buf = <<LF, "a">>
    /\ raw.out = <<"a", CR, LF, "a">>

\* thread t is in thread_join for c, or in thread_join_any with a child c,
\* and c has exited
AwaitedExited(t, c) ==
    /\ Occupied(c) /\ parent[c] = t /\ state[c] = "EXITED"
    /\ \/ pc[t] = "join" /\ jtid[t] = c
       \/ pc[t] = "joinany"

\* a thread_exit makes a parent that waits on its child_exit READY and puts
\* it on the ready list
ExitWakesStep ==
    \A c \in Tids :
        (pc[c] = "run" /\ pc'[c] = "exit" /\ halted' = "") =>
            \A t \in Tids :
                (pc[t] \in {"join", "joinany"} /\ state[t] = "WAITING"
                 /\ parent[c] = t) =>
                    /\ state'[t] \in {"READY", "RUNNING"}
                    /\ wait_cond'[t] = NULL
                    /\ state'[t] = "READY" =>
                          t \in Range(ListSeq(ready_list', list_next'))

\* C24: no wake-up of a joiner is lost: the exit of a child makes its waiting
\* parent READY; no joiner is WAITING while the child it waits for has
\* exited; and under fair scheduling a joiner whose child has exited is
\* dispatched and returns from thread_join or thread_join_any.
C24_NoLostWakeup ==
    /\ [][ExitWakesStep]_vars
    /\ [](\A t, c \in Tids : AwaitedExited(t, c) /\ halted = ""
                                => state[t] # "WAITING")
    /\ \A t, c \in Tids :
          (AwaitedExited(t, c) /\ pc[t] = "join")
             ~> ((ev.op = "join" /\ ev.thr = t /\ ev.val = c) \/ halted # "")
    /\ \A t \in Tids :
          (\E c \in Tids : AwaitedExited(t, c) /\ pc[t] = "joinany")
             ~> ((ev.op = "join_any" /\ ev.thr = t /\ ev.val >= 1)
                 \/ halted # "")

\* a joiner made READY by the exit of its child and not yet dispatched
WokenJoiner(where) ==
    \E t, c \in Tids : AwaitedExited(t, c) /\ pc[t] = where
                       /\ state[t] = "READY"

\* C24 witness: a thread blocked in thread_join that the exit of its child
\* has made READY
C24_Witness == WokenJoiner("join")

\* a step in which suspend_self takes the head of the ready list
Dispatch == ReadySeq # <<>> /\ cur' # cur /\ cur' = ReadySeq[1]

\* round-robin order: the only thread that is switched to is the head of the
\* ready list (or the new child of a fork); a scheduling decision runs the head
\* and moves every other ready thread up by one place, no other step changes
\* the place of a ready thread, and a running thread that gives up the
\* processor goes to the end of the list
RoundRobinStep ==
    halted' = "" =>
        /\ cur' # cur => Dispatch \/ ~Occupied(cur')
        /\ \A i \in 1 .. Len(ReadySeq) :
              IF Dispatch
              THEN IF i = 1
                   THEN state'[ReadySeq[i]] = "RUNNING"
                   ELSE /\ i - 1 <= Len(ReadySeq')
                        /\ ReadySeq'[i - 1] = ReadySeq[i]
              ELSE /\ i <= Len(ReadySeq')
                   /\ ReadySeq'[i] = ReadySeq[i]
        /\ (cur' # cur /\ state'[cur] = "READY") =>
              /\ ReadySeq' # <<>>
              /\ ReadySeq'[Len(ReadySeq')] = cur

\* C25: round-robin without starvation: each scheduling decision runs the
\* head of the ready list and moves the others up one place, so a ready
\* thread runs after as many decisions as there are threads ahead of it; a
\* thread that yields is placed last; the idle thread waits for an interrupt
\* only when no thread is ready; and under fair scheduling every READY
\* thread gets to run.
C25_NoStarvation ==
    /\ [][RoundRobinStep]_vars
    /\ [](wfi => ReadySeq = <<>>)
    /\ \A t \in Tids :
          (Occupied(t) /\ state[t] = "READY")
             ~> (state[t] = "RUNNING" \/ halted # "")

\* C25 witness: a thread that yielded behind two ready threads, the idle
\* thread among them, has been dispatched again
C25_Witness ==
    /\ \E t \in Tids \ {MAIN_TID, IDLE_TID} :
          /\ cur = t /\ pc[t] = "yield" /\ state[t] = "RUNNING"
          /\ Len(ReadySeq) = 2
    /\ halted = ""

\* what condition_broadcast(c) does in the kernel state k
BroadcastEffect(k, c) ==
    LET k1 == condition_broadcast(k, c)
        ws == ListSeq(k.cond[c], k.list_next)
        rs == ListSeq(k.ready_list, k.list_next)
    IN /\ k1.halted = ""
       /\ \A t \in Range(ws) :
             /\ k.state[t] = "WAITING"
             /\ k1.state[t] = "READY" /\ k1.wait_cond[t] = NULL
       /\ ListSeq(k1.ready_list, k1.list_next) = rs \o ws
       /\ ListSeq(k1.cond[c], k1.list_next) = <<>>
       /\ \A t \in Tids \ Range(ws) :
             /\ k1.state[t] = k.state[t]
             /\ k1.wait_cond[t] = k.wait_cond[t]
       /\ \A t \in Tids \ (Range(ws) \cup Range(rs)) :
             k1.list_next[t] = k.list_next[t]
       /\ \A d \in CondIds \ {c} :
             ListSeq(k1.cond[d], k1.list_next) = ListSeq(k.cond[d], k.list_next)
       /\ [k1 EXCEPT !.state = k.state, !.wait_cond = k.wait_cond,
                     !.ready_list = k.ready_list, !.list_next = k.list_next,
                     !.cond = k.cond] = k
       /\ ws = <<>> => k1 = k

\* C26: in every state the kernel reaches, condition_broadcast(c) makes each
\* thread on c's wait-list READY with wait_cond cleared, appends them in order
\* to the ready list and empties the wait-list; the threads not on it, the
\* other wait-lists, the running thread and the order of the threads already
\* ready stay as they are; without waiters nothing changes.
C26_BroadcastEffect ==
    halted = "" => \A c \in CondIds : BroadcastEffect(K, c)

\* C26 witness: a broadcast has moved two waiting threads behind the thread
\* that was ready before
C26_Witness ==
    /\ halted = "" /\ WaitSeq(EXT_COND) = <<>>
    /\ Len(ReadySeq) = 3
    /\ \A i \in 2 .. 3 : pc[ReadySeq[i]] = "cwait" /\ state[ReadySeq[i]] = "READY"

\* C27: while a thread that has a process executes, the active address space
\* is the mtag of its process: after its dispatch by suspend_self, in the
\* child after a fork, and in the parent when it is dispatched again.
C27_ActiveSpaceIsCurrentProcess ==
    (halted = "" /\ Occupied(cur) /\ proc[cur] # NULL) =>
        satp = mtag(proc[cur])

\* C27 witness: the parent of a fork is running again, in its own address
\* space, while its child's process exists
C27_Witness ==
    /\ halted = "" /\ pc[cur] = "fork_ret" /\ fork_tid[cur] # cur
    /\ Occupied(fork_tid[cur]) /\ proc[fork_tid[cur]] # proc[cur]
    /\ satp = mtag(proc[cur])

\* the chain of parents of t, at most n links long, ends at main
ReachesMain(t, n) ==
    LET RECURSIVE up(_, _)
        up(x, i) == IF x = MAIN_TID THEN TRUE
                    ELSE IF i = 0 \/ x = NULL THEN FALSE
                    ELSE up(parent[x], i - 1)
    IN up(t, n)

\* every thread of the table but main has a parent that occupies a slot, and
\* no thread is its own ancestor
ThreadTreeWellFormed ==
    \A t \in Tids : (Occupied(t) /\ t # MAIN_TID) =>
        /\ parent[t] # NULL /\ Occupied(parent[t])
        /\ ReachesMain(t, NTHR)

\* a step that recycles a thread gives its children the recycled thread's
\* parent and leaves every other thread's parent alone
ReparentStep ==
    \A t \in Tids : (Occupied(t) /\ ~Occupied(t)') =>
        \A c \in Tids \ {t} :
            parent'[c] = IF Occupied(c) /\ parent[c] = t THEN parent[t]
                         ELSE parent[c]

\* C28: when a thread is recycled its children get its parent as theirs, so
\* every thread in the table other than main always has a parent that still
\* occupies a slot, and the parent relation has no cycle.
C28_ThreadTreeWellFormed ==
    [](ThreadTreeWellFormed) /\ [][ReparentStep]_vars

\* C28 witness: a join has recycled a thread that had a child, and the child
\* now belongs to the joiner
C28_Witness ==
    /\ halted = "" /\ ev.op \in {"join", "join_any"} /\ ev.adopted # {}
    /\ ~Occupied(ev.val)
    /\ \A c \in ev.adopted : Occupied(c) /\ parent[c] = ev.thr

\* C29: the address released for an exited thread is the lowest address of
\* the block that was allocated for its kernel stack at spawn or fork, and it
\* goes to the allocator the block came from.
C29_ReleasedAddressIsStackPage ==
    \A t \in Tids : \A i \in 1 .. Len(stack[t].released) :
        /\ stack[t].released[i].addr = 0
        /\ stack[t].released[i].to = stack[t].alloc

Releases(t) == Len(stack[t].released)

\* a stack is released at most once, and only the stack of an exited thread
\* that is no longer running
ReleasedAfterSwitch ==
    \A t \in Tids : Releases(t) > 0 =>
        Releases(t) = 1 /\ state[t] = "EXITED" /\ cur # t

\* a step that recycles a thread finds its stack released
RecycleStep ==
    \A t \in Tids : (Occupied(t) /\ ~Occupied(t)') => Releases(t) = 1

\* C30: the kernel stack of every thread that exits is released exactly
\* once, only after the thread has been switched away from and before join
\* recycles the thread, whichever thread is dispatched after it, a thread
\* that runs for the first time included.
C30_StackReleasedOnce ==
    /\ [](ReleasedAfterSwitch)
    /\ [][RecycleStep]_vars
    /\ \A t \in Tids :
          (Occupied(t) /\ state[t] = "EXITED" /\ cur # t)
              ~> (Releases(t) = 1 \/ halted # "")

\* ------------------------------------ statement by statement, with interrupts
\* The functions of the scheduler followed from one interrupt window to the
\* next: a step is a stretch of statements, intr_disable, intr_restore and
\* intr_enable are steps of their own, and an interrupt handler runs between
\* two steps whenever interrupts are enabled.

At(t, where) == halted = "" /\ ~wfi /\ cur = t /\ pc[t] = where

Goto(t, where) == [pc EXCEPT ![t] = where]

FineFrame ==
    UNCHANGED <<fork_tid, proctab, iotab, refcnt, unreaped, pvars, ivars>>

Fine(k, newpc, newcpu) ==
    /\ Commit(k)
    /\ pc' = newpc
    /\ cpu' = newcpu
    /\ ev' = NoEvent
    /\ UNCHANGED <<jtid, wfi>>
    /\ FineFrame

\* thread_spawn: the search for a free slot
thread_spawn_find(t) ==
    /\ At(t, "run") /\ t # IDLE_TID
    /\ \E tid \in {FreeSlot(K, 1)} :
          IF tid = NTHR
          THEN Fine(Panic(K, "Too many threads"), pc, cpu)
          ELSE Fine(K, Goto(t, "spawn_store"), [cpu EXCEPT !.tid[t] = tid])

\* thread_spawn: the new thread and its stack, stored in the slot found
spawn_store(k, tid) ==
    [k EXCEPT !.thrtab[tid] = tid,
              !.parent[tid] = k.cur,
              !.proc[tid] = k.proc[k.cur],
              !.stack[tid] = NewStack("page"),
              !.state[tid] = "READY"]

\* the slot's saved context is whatever kmalloc returned until _thread_setup
thread_spawn_store(t) ==
    /\ At(t, "spawn_store")
    /\ Fine(spawn_store(K, cpu.tid[t]),
            [pc EXCEPT ![t] = "spawn_disable", ![cpu.tid[t]] = "unset"], cpu)

thread_spawn_insert(t) ==
    /\ At(t, "spawn_insert")
    /\ \E ins \in {tlinsert(ready_list, list_next, cpu.tid[t])} :
          Fine([K EXCEPT !.ready_list = ins.list, !.list_next = ins.ln],
               Goto(t, "spawn_restore"), cpu)

\* thread_spawn: _thread_setup and the return of the tid
thread_spawn_setup(t) ==
    /\ At(t, "spawn_setup")
    /\ Commit(K)
    /\ pc' = [pc EXCEPT ![t] = "run",
                        ![cpu.tid[t]] = IF @ = "unset" THEN "start" ELSE @]
    /\ cpu' = [cpu EXCEPT !.tid[t] = NULL]
    /\ ev' = Event("spawn", t, cpu.tid[t])
    /\ UNCHANGED <<jtid, wfi>>
    /\ FineFrame

\* the statement after each intr_disable and after each intr_restore
AfterDisable ==
    [spawn_disable |-> "spawn_insert", wait_disable |-> "wait_insert",
     ss_disable |-> "ss_dequeue", idle_disable |-> "idle_check"]

AfterRestore(t) ==
    [spawn_restore |-> "spawn_setup", wait_restore |-> "ss_assert",
     ss_restore |-> cpu.ret[t]]

\* intr_disable; the idle loop does not keep the old state
intr_disable(t) ==
    /\ halted = "" /\ ~wfi /\ cur = t /\ pc[t] \in DOMAIN AfterDisable
    /\ Fine(K, Goto(t, AfterDisable[pc[t]]),
            [cpu EXCEPT !.sie = FALSE,
                        !.saved[t] = IF pc[t] = "idle_disable" THEN @
                                     ELSE cpu.sie])

\* intr_restore(saved_intr_state); thread_exit panics when its suspend_self
\* returns
intr_restore(t) ==
    /\ halted = "" /\ ~wfi /\ cur = t /\ pc[t] \in DOMAIN AfterRestore(t)
    /\ \E to \in {AfterRestore(t)[pc[t]]} :
          Fine(IF to = "exit" THEN Panic(K, "thread_exit() failed") ELSE K,
               Goto(t, to), [cpu EXCEPT !.sie = cpu.saved[t]])

\* condition_wait up to its intr_disable
condition_wait_mark(k, c) ==
    IF k.state[k.cur] # "RUNNING"
    THEN Panic(k, "assert CURTHR->state == THREAD_RUNNING")
    ELSE [set_thread_state(k, k.cur, "WAITING") EXCEPT
             !.wait_cond[k.cur] = c, !.list_next[k.cur] = NULL]

condition_wait_enter(t) ==
    /\ At(t, "run") /\ t # IDLE_TID
    /\ Fine(condition_wait_mark(K, EXT_COND), Goto(t, "wait_disable"),
            [cpu EXCEPT !.ret[t] = "run", !.cond[t] = EXT_COND])

condition_wait_insert(t) ==
    /\ At(t, "wait_insert")
    /\ \E ins \in {tlinsert(cond[cpu.cond[t]], list_next, t)} :
          Fine([K EXCEPT !.cond[cpu.cond[t]] = ins.list, !.list_next = ins.ln],
               Goto(t, "wait_restore"), [cpu EXCEPT !.cond[t] = NULL])

\* suspend_self: the assert on the ready list
suspend_self_enter(t) ==
    /\ At(t, "ss_assert")
    /\ IF tlempty(ready_list)
       THEN Fine(Panic(K, "assert !tlempty(ready_list)"), pc, cpu)
       ELSE Fine(K, Goto(t, "ss_disable"), cpu)

\* a suspend_self that puts the suspending thread on the ready list
\* whatever its state
suspend_self_dequeue_always(k) ==
    LET susp == k.cur
        rm == tlremove(k.ready_list, k.list_next)
        next == rm.thr
        k1 == set_thread_state(
                  [k EXCEPT !.ready_list = rm.list, !.list_next = rm.ln],
                  next, "RUNNING")
        ins == tlinsert(k1.ready_list, k1.list_next, susp)
        k2 == [set_thread_state(k1, susp, "READY") EXCEPT
                  !.ready_list = ins.list, !.list_next = ins.ln]
    IN IF next = NULL
       THEN [k |-> Panic(k, "next_thread is NULL"), next |-> NULL]
       ELSE IF k.state[next] # "READY"
       THEN [k |-> Panic(k, "assert next_thread->state == THREAD_READY"),
             next |-> NULL]
       ELSE [k |-> k2, next |-> next]

\* suspend_self between intr_disable and intr_enable: [k, next]
suspend_self_dequeue(k) ==
    LET susp == k.cur
        rm == tlremove(k.ready_list, k.list_next)
        next == rm.thr
        k1 == set_thread_state(
                  [k EXCEPT !.ready_list = rm.list, !.list_next = rm.ln],
                  next, "RUNNING")
        ins == tlinsert(k1.ready_list, k1.list_next, susp)
        k2 == IF k1.state[susp] = "RUNNING"
              THEN [set_thread_state(k1, susp, "READY") EXCEPT
                       !.ready_list = ins.list, !.list_next = ins.ln]
              ELSE k1
    IN IF next = NULL
       THEN [k |-> Panic(k, "next_thread is NULL"), next |-> NULL]
       ELSE IF k.state[next] # "READY"
       THEN [k |-> Panic(k, "assert next_thread->state == THREAD_READY"),
             next |-> NULL]
       ELSE [k |-> k2, next |-> next]

suspend_self_pick(t) ==
    /\ At(t, "ss_dequeue")
    /\ \E r \in {suspend_self_dequeue(K)} :
          Fine(r.k, Goto(t, "ss_enable"), [cpu EXCEPT !.next[t] = r.next])

\* suspend_self: intr_enable()
suspend_self_intr_enable(t) ==
    /\ At(t, "ss_enable")
    /\ Fine(K, Goto(t, "ss_switch"), [cpu EXCEPT !.sie = TRUE])

\* suspend_self: memory_space_switch and _thread_swtch
suspend_self_swtch(t) ==
    /\ At(t, "ss_switch")
    /\ \E next \in {cpu.next[t]} :
          Fine(thread_swtch(IF proc[next] # NULL
                            THEN memory_space_switch(K, mtag(proc[next]))
                            ELSE K, next),
               Goto(t, "ss_tail"), [cpu EXCEPT !.next[t] = NULL])

\* suspend_self after _thread_swtch has returned
suspend_self_resume(t) ==
    /\ At(t, "ss_tail")
    /\ Fine(suspend_self_tail(K), Goto(t, "ss_restore"), cpu)

\* the first dispatch of a thread enters its start function
thread_start(t) ==
    /\ At(t, "start")
    /\ Fine([K EXCEPT !.prev = NULL],
            Goto(t, IF t = IDLE_TID THEN "idle_test" ELSE "run"), cpu)

thread_yield_enter(t) ==
    /\ At(t, "run") /\ t # IDLE_TID
    /\ IF state[t] # "RUNNING"
       THEN Fine(Panic(K, "assert CURTHR->state == THREAD_RUNNING"), pc, cpu)
       ELSE Fine(K, Goto(t, "ss_assert"), [cpu EXCEPT !.ret[t] = "run"])

\* idle_thread_func: while (!tlempty(&ready_list)) thread_yield();
idle_thread_test ==
    /\ At(IDLE_TID, "idle_test")
    /\ IF tlempty(ready_list)
       THEN Fine(K, Goto(IDLE_TID, "idle_disable"), cpu)
       ELSE IF state[IDLE_TID] # "RUNNING"
       THEN Fine(Panic(K, "assert CURTHR->state == THREAD_RUNNING"), pc, cpu)
       ELSE Fine(K, Goto(IDLE_TID, "ss_assert"),
                 [cpu EXCEPT !.ret[IDLE_TID] = "idle_test"])

\* an idle loop that halts without looking at the ready list again
idle_thread_check_blind ==
    /\ At(IDLE_TID, "idle_check")
    /\ Commit(K)
    /\ wfi' = TRUE
    /\ pc' = Goto(IDLE_TID, "idle_enable")
    /\ ev' = NoEvent
    /\ UNCHANGED <<jtid, cpu>>
    /\ FineFrame

\* idle_thread_func: if (tlempty(&ready_list)) asm ("wfi");
idle_thread_check ==
    /\ At(IDLE_TID, "idle_check")
    /\ Commit(K)
    /\ wfi' = tlempty(ready_list)
    /\ pc' = Goto(IDLE_TID, "idle_enable")
    /\ ev' = NoEvent
    /\ UNCHANGED <<jtid, cpu>>
    /\ FineFrame

\* idle_thread_func: intr_enable(); an interrupt that woke wfi is taken here
idle_thread_intr_enable ==
    /\ At(IDLE_TID, "idle_enable")
    /\ Fine(IF cpu.pending THEN condition_broadcast(K, EXT_COND) ELSE K,
            Goto(IDLE_TID, "idle_test"),
            [cpu EXCEPT !.sie = TRUE, !.pending = FALSE])

\* A device interrupt: its handler broadcasts the device's condition. With
\* interrupts disabled it can only end a wfi and stay pending.
Interrupt ==
    /\ halted = ""
    /\ cpu.sie \/ wfi
    /\ Commit(IF cpu.sie THEN condition_broadcast(K, EXT_COND) ELSE K)
    /\ cpu' = IF cpu.sie THEN cpu ELSE [cpu EXCEPT !.pending = TRUE]
    /\ wfi' = FALSE
    /\ ev' = NoEvent
    /\ UNCHANGED <<pc, jtid>>
    /\ FineFrame

\* thread_exit up to its suspend_self
thread_exit_signal(k) ==
    IF k.cur = MAIN_TID THEN Panic(k, "halt_success")
    ELSE LET k1 == set_thread_state(k, k.cur, "EXITED") IN
         IF k1.parent[k1.cur] = NULL
         THEN Panic(k1, "assert CURTHR->parent != NULL")
         ELSE condition_broadcast(k1, child_exit(k1.parent[k1.cur]))

thread_exit_enter(t) ==
    /\ At(t, "run") /\ t # IDLE_TID
    /\ Fine(thread_exit_signal(K), Goto(t, "ss_assert"),
            [cpu EXCEPT !.ret[t] = "exit"])

\* thread_join: the checks on the argument
thread_join_enter(t, tid) ==
    /\ At(t, "run") /\ t # IDLE_TID
    /\ Commit(K)
    /\ IF tid <= 0 \/ thrtab[tid] = NULL \/ parent[tid] # t
       THEN /\ ev' = Event("join", t, 0 - 1)
            /\ UNCHANGED <<pc, jtid>>
       ELSE /\ ev' = NoEvent
            /\ pc' = Goto(t, "join_loop")
            /\ jtid' = [jtid EXCEPT ![t] = tid]
    /\ UNCHANGED <<wfi, cpu>>
    /\ FineFrame

\* thread_join: the loop test, then condition_wait or recycle_thread
thread_join_test(t) ==
    /\ At(t, "join_loop")
    /\ IF state[jtid[t]] # "EXITED"
       THEN Fine(condition_wait_mark(K, child_exit(t)),
                 Goto(t, "wait_disable"),
                 [cpu EXCEPT !.ret[t] = "join_loop",
                             !.cond[t] = child_exit(t)])
       ELSE \E k \in {recycle_thread(K, jtid[t])} :
               /\ Commit(k)
               /\ pc' = Released(k, Goto(t, "run"), "none")
               /\ jtid' = [jtid EXCEPT ![t] = NULL]
               /\ ev' = Event("join", t, jtid[t])
               /\ UNCHANGED <<wfi, cpu>>
               /\ FineFrame

NextIntr ==
    \/ \E t \in Tids : thread_spawn_find(t)
    \/ \E t \in Tids : thread_spawn_store(t)
    \/ \E t \in Tids : thread_spawn_insert(t)
    \/ \E t \in Tids : thread_spawn_setup(t)
    \/ \E t \in Tids : intr_disable(t)
    \/ \E t \in Tids : intr_restore(t)
    \/ \E t \in Tids : condition_wait_enter(t)
    \/ \E t \in Tids : condition_wait_insert(t)
    \/ \E t \in Tids : suspend_self_enter(t)
    \/ \E t \in Tids : suspend_self_pick(t)
    \/ \E t \in Tids : suspend_self_intr_enable(t)
    \/ \E t \in Tids : suspend_self_swtch(t)
    \/ \E t \in Tids : suspend_self_resume(t)
    \/ \E t \in Tids : thread_start(t)
    \/ \E t \in Tids : thread_yield_enter(t)
    \/ idle_thread_test
    \/ idle_thread_check
    \/ idle_thread_intr_enable
    \/ Interrupt
    \/ \E t \in Tids : thread_exit_enter(t)
    \/ \E t \in Tids, tid \in Tids : thread_join_enter(t, tid)
    \/ \E t \in Tids : thread_join_test(t)

SpecIntr == Init /\ [][NextIntr]_vars

\* a step that changes the thread table is taken with interrupts disabled
TableStep == thrtab' # thrtab => ~cpu.sie

\* the slot a creation stores into is still free
FreshSlotStep ==
    \A t \in Tids :
        (pc[t] = "spawn_store" /\ pc'[t] # "spawn_store") =>
            thrtab[cpu.tid[t]] = NULL

\* C31: the thread table is mutated only while interrupts are disabled: no
\* interrupt handler can run between the search for a free slot and the
\* store into it, nor around the clearing of a slot with the re-parenting
\* of its children, and two creations never obtain the same slot.
C31_TableMutatedIntrDisabled ==
    /\ [](\A t \in Tids : pc[t] = "spawn_store" => ~cpu.sie)
    /\ [][TableStep /\ FreshSlotStep]_vars

\* no thread whose saved context has not been set up is the running thread
SetUpWhenDispatched == \A t \in Tids : pc[t] = "unset" => cur # t

\* C32: a spawned thread's saved context is set up before the thread is on
\* the ready list, so no thread is ever dispatched with a context that has
\* not been set up, under any interleaving with interrupts and scheduling.
C32_ContextBeforeVisible ==
    /\ \A t \in Tids : pc[t] = "unset" => t \notin Range(ReadySeq)
    /\ SetUpWhenDispatched

\* threads that spawn threads, wait for a device and yield, and the idle
\* thread
NextIdle ==
    \/ \E t \in Tids : thread_spawn_find(t)
    \/ \E t \in Tids : thread_spawn_store(t)
    \/ \E t \in Tids : thread_spawn_insert(t)
    \/ \E t \in Tids : thread_spawn_setup(t)
    \/ \E t \in Tids : intr_disable(t)
    \/ \E t \in Tids : intr_restore(t)
    \/ \E t \in Tids : condition_wait_enter(t)
    \/ \E t \in Tids : condition_wait_insert(t)
    \/ \E t \in Tids : suspend_self_enter(t)
    \/ \E t \in Tids : suspend_self_pick(t)
    \/ \E t \in Tids : suspend_self_intr_enable(t)
    \/ \E t \in Tids : suspend_self_swtch(t)
    \/ \E t \in Tids : suspend_self_resume(t)
    \/ \E t \in Tids : thread_start(t)
    \/ \E t \in Tids : thread_yield_enter(t)
    \/ idle_thread_test
    \/ idle_thread_check
    \/ idle_thread_intr_enable
    \/ Interrupt

\* The running thread goes on executing the function it is in; whether it
\* calls a function, and whether a device interrupts, is not guaranteed.
RunOn ==
    \/ \E t \in Tids : intr_disable(t) \/ intr_restore(t)
    \/ \E t \in Tids : thread_spawn_store(t) \/ thread_spawn_insert(t)
    \/ \E t \in Tids : thread_spawn_setup(t)
    \/ \E t \in Tids : condition_wait_insert(t)
    \/ \E t \in Tids : suspend_self_enter(t) \/ suspend_self_pick(t)
    \/ \E t \in Tids : suspend_self_intr_enable(t) \/ suspend_self_swtch(t)
    \/ \E t \in Tids : suspend_self_resume(t) \/ thread_start(t)
    \/ idle_thread_test
    \/ idle_thread_check
    \/ idle_thread_intr_enable

FairIdle == Init /\ [][NextIdle]_vars /\ WF_vars(RunOn)

\* C33: the idle thread never sits in wfi while the ready list is not
\* empty, and when a handler has readied a thread while the idle thread
\* runs, the idle thread eventually yields to that thread (the head of the
\* ready list, unless the idle thread has already dequeued another).
C33_IdleNeverSleepsOnWork ==
    /\ [](wfi => tlempty(ready_list))
    /\ \A t \in Tids :
          (/\ halted = "" /\ cur = IDLE_TID /\ ready_list.head = t
           /\ cpu.next[IDLE_TID] = NULL)
              ~> (cur = t \/ halted # "")

\* C33 witness: a handler readied a thread after the idle thread found the
\* ready list empty, and the idle thread, interrupts disabled, is about to
\* look again
C33_Witness ==
    /\ halted = "" /\ cur = IDLE_TID /\ pc[IDLE_TID] = "idle_check"
    /\ ~cpu.sie /\ ~tlempty(ready_list)

\* Every running thread eventually leaves the processor: it goes on with the
\* function it is in, and at the top level it eventually yields (the timer)
\* unless it calls something else.
GivesWay == RunOn \/ \E t \in Tids : thread_yield_enter(t)

FairWait == Init /\ [][NextIdle]_vars /\ WF_vars(GivesWay)

\* thread t has left condition_wait's critical section, a handler has
\* broadcast the condition, and t's suspend_self has not dequeued yet
WokenEarly(t) ==
    /\ halted = "" /\ cur = t /\ state[t] = "READY"
    /\ pc[t] \in {"ss_assert", "ss_disable", "ss_dequeue"}

\* C34: a thread whose condition is broadcast by a handler between its
\* linking on the wait-list and the dequeue in its suspend_self is on the
\* ready list exactly once, suspend_self does not enqueue it again and does
\* not pick it as the next thread while it is the current one, and it is
\* resumed later, once.
C34_WakeupBeforeSuspend ==
    /\ [](\A t \in Tids : Count(t, ReadySeq) <= 1)
    /\ [](\A t \in Tids :
            (halted = "" /\ cur = t /\ state[t] = "READY") =>
                Count(t, ReadySeq) = 1 /\ cpu.next[t] # t)
    /\ [](\A t \in Tids :
            (halted = "" /\ state[t] = "RUNNING") => Count(t, ReadySeq) = 0)
    /\ \A t \in Tids :
          WokenEarly(t)
              ~> ((cur = t /\ pc[t] = "run" /\ state[t] = "RUNNING")
                  \/ halted # "")

\* C34 witness: the woken caller, interrupts disabled, is about to dequeue
C34_Witness ==
    \E t \in Tids :
        /\ WokenEarly(t) /\ pc[t] = "ss_dequeue" /\ wait_cond[t] = NULL
        /\ Count(t, ReadySeq) = 1

\* ------------------------------------------ the literal over all lengths
\* lengths a caller may pass: short ones and those near the top of the word
Lengths == (0 .. MaxReq) \cup ((WORD - MaxLit - 1) .. (WORD - 1))

\* what a call did: the position and size it found, the count it gave to
\* memcpy, and whether the copy ran outside the literal's buffer. Such a copy
\* touches memory that is not the literal's: it either faults or goes
\* through.
LitCall(op, n, r, fault) ==
    [op |-> op, kind |-> "lit", n |-> n, ret |-> r.ret, buf |-> r.data,
     pos |-> lit.pos, size |-> lit.size, span |-> r.span, fault |-> fault]

Outcomes(r) == IF r.span > lit.size - lit.pos THEN BOOLEAN ELSE {FALSE}

WordRead(n) ==
    /\ \E r \in {io_lit_read(lit, n)} : \E fault \in Outcomes(r) :
          /\ lit' = r.lit
          /\ io' = LitCall("lit_read", n, r, fault)
    /\ UNCHANGED <<kvars, term, raw>>

WordWrite(n) ==
    /\ \E r \in {io_lit_write(lit, UserBuf(n), n)} : \E fault \in Outcomes(r) :
          /\ lit' = r.lit
          /\ io' = LitCall("lit_write", n, r, fault)
    /\ UNCHANGED <<kvars, term, raw>>

NextLit ==
    \/ \E n \in Lengths : WordRead(n)
    \/ \E n \in Lengths : WordWrite(n)
    \/ \E arg \in 0 .. (MaxLit + 1) : LitCtl("SETPOS", arg)

SpecLit == InitIO /\ [][NextLit]_vars

\* C35: for every position, size and length, lengths that make pos + length
\* wrap around included, io_lit_read and io_lit_write copy at most
\* size - pos bytes and never touch the buffer outside [0, size); with
\* pos >= size they return -EINVAL, copy nothing and leave pos alone.
C35_LitCopyInBounds ==
    io.op \in {"lit_read", "lit_write"} =>
        IF io.pos >= io.size
        THEN io.ret = -EINVAL /\ io.span = 0 /\ lit.pos = io.pos
        ELSE io.span <= io.size - io.pos /\ ~io.fault

\* ------------------------------------------------------------ C36
\* the places of the caller's buffer that went to the raw device in the
\* calls of the write recorded in io, in order
RECURSIVE SentPlaces(_)
SentPlaces(i) ==
    IF i = 0 THEN <<>>
    ELSE SentPlaces(i - 1)
         \o [j \in 1 .. Len(io.sent[i]) |-> io.calls[i].off + io.sent[i][j]]

NoneTwice(s) == \A i, j \in 1 .. Len(s) : s[i] = s[j] => i = j

\* C36: on a raw device that accepts every byte, ioterm_write(buf, len)
\* returns len whatever the buffer and the cr_out bit before the call (a
\* first \n dropped after a \r counted), and so an iowrite on the wrapper
\* makes one call of it, returns len, and gives no byte of the caller's
\* buffer to the raw device twice.
C36_WriteReturnsLen ==
    /\ io.op = "ioterm_write" => io.ret = io.n
    /\ io.op = "iowrite" =>
          /\ io.ret = io.n
          /\ Len(io.calls) = 1
          /\ NoneTwice(SentPlaces(Len(io.calls)))

\* ------------------------------------------------------------ C37
\* the string in the buffer of the ioterm_getsn recorded in io: the bytes
\* before the first NUL
Returned ==
    LET len == CHOOSE k \in 0 .. io.n :
                   /\ k = io.n \/ io.mem[k] = NUL
                   /\ \A i \in 0 .. (k - 1) : io.mem[i] # NUL
    IN [i \in 1 .. len |-> io.mem[i - 1]]

\* a line as its typing leaves it, in a buffer with room for room
\* characters: a character typed when there is room is added at the end, one
\* typed when there is none is refused, and each backspace or delete removes
\* the last character that remains
RECURSIVE Edited(_, _, _)
Edited(s, room, line) ==
    IF s = <<>> \/ Head(s) \in {CR, LF} THEN line
    ELSE IF Head(s) \in {BS, DEL}
    THEN Edited(Tail(s), room,
                IF line = <<>> THEN line ELSE SubSeq(line, 1, Len(line) - 1))
    ELSE Edited(Tail(s), room,
                IF Len(line) < room THEN Append(line, Head(s)) ELSE line)

GetsnInBounds ==
    io.op = "ioterm_getsn" =>
       /\ io.ret = "buf"
       /\ io.wrote \subseteq 0 .. (io.n - 1)
       /\ io.low >= 0
       /\ Len(Returned) <= io.n - 1
       /\ io.mem[Len(Returned)] = NUL

\* C37: for a buffer of n >= 1 bytes and a typed line of ordinary
\* characters, backspaces and deletes with a line end after them,
\* ioterm_getsn leaves at most n - 1 characters and a NUL after them in the
\* buffer, writes only at buf[0 .. n - 1], never has its write position below
\* buf, and the string it returns is the characters typed, each backspace
\* having removed the last character that remained.
C37_GetsnLineEdit ==
    /\ GetsnInBounds
    /\ io.op = "ioterm_getsn" => Returned = Edited(io.typed, io.n - 1, <<>>)

====
